---------------------------- MODULE Spec2Model ----------------------------
(***************************************************************************)
(* Model of the NuGet compatibility engine of DotNET Build Buddy           *)
(* (src/src/dotnetProjectManager.ts, class NuGetCompatibilityChecker).     *)
(*                                                                         *)
(* Strings of the program are TLA+ strings; the operators below take them  *)
(* apart character by character, so that parsing, matching and formatting  *)
(* are computed as the code computes them.                                 *)
(***************************************************************************)
EXTENDS Integers, Sequences, FiniteSets, TLC

(***************************************************************************)
(* JavaScript values.                                                      *)
(***************************************************************************)
\* `undefined` where the code expects a string (an absent package version).
Undefined == "<undefined>"

\* `null` where the code expects a CompatibilityIssue.
Null == [issueType |-> "null"]

\* `undefined` where the code expects a CompatibilityIssue | null.
UndefinedIssue == [issueType |-> "undefined"]

\* Truthiness of an optional string: undefined and "" are falsy.
Truthy(s) == s # Undefined /\ s # ""

\* NaN of Number(); the numbers the model parses are never negative.
NaN == -1

(***************************************************************************)
(* String primitives.                                                      *)
(***************************************************************************)
Char(s, i) == SubSeq(s, i, i)

\* Index of the first occurrence of the one-character string c in s at or
\* after position i, 0 when there is none.
RECURSIVE IndexFrom(_, _, _)
IndexFrom(s, c, i) ==
   IF i > Len(s) THEN 0 ELSE IF Char(s, i) = c THEN i ELSE IndexFrom(s, c, i + 1)

IndexOf(s, c) == IndexFrom(s, c, 1)

DigitValue ==
   ("0" :> 0) @@ ("1" :> 1) @@ ("2" :> 2) @@ ("3" :> 3) @@ ("4" :> 4)
   @@ ("5" :> 5) @@ ("6" :> 6) @@ ("7" :> 7) @@ ("8" :> 8) @@ ("9" :> 9)

LowerOf ==
   ("A" :> "a") @@ ("B" :> "b") @@ ("C" :> "c") @@ ("D" :> "d")
   @@ ("E" :> "e") @@ ("F" :> "f") @@ ("G" :> "g") @@ ("H" :> "h")
   @@ ("I" :> "i") @@ ("J" :> "j") @@ ("K" :> "k") @@ ("L" :> "l")
   @@ ("M" :> "m") @@ ("N" :> "n") @@ ("O" :> "o") @@ ("P" :> "p")
   @@ ("Q" :> "q") @@ ("R" :> "r") @@ ("S" :> "s") @@ ("T" :> "t")
   @@ ("U" :> "u") @@ ("V" :> "v") @@ ("W" :> "w") @@ ("X" :> "x")
   @@ ("Y" :> "y") @@ ("Z" :> "z")

IsDigit(c) == c \in DOMAIN DigitValue
DigitVal(c) == DigitValue[c]

LowerChar(c) == IF c \in DOMAIN LowerOf THEN LowerOf[c] ELSE c

RECURSIVE toLowerCase(_)
toLowerCase(s) ==
   IF s = "" THEN "" ELSE LowerChar(Char(s, 1)) \o toLowerCase(Tail(s))

startsWith(s, p) == Len(s) >= Len(p) /\ SubSeq(s, 1, Len(p)) = p

\* String.prototype.split on a one-character separator.
RECURSIVE split(_, _)
split(s, sep) ==
   IF IndexOf(s, sep) = 0 THEN <<s>>
   ELSE <<SubSeq(s, 1, IndexOf(s, sep) - 1)>> \o split(SubSeq(s, IndexOf(s, sep) + 1, Len(s)), sep)

\* Array.prototype.join.
RECURSIVE join(_, _)
join(parts, sep) ==
   IF parts = <<>> THEN ""
   ELSE IF Len(parts) = 1 THEN parts[1]
   ELSE parts[1] \o sep \o join(Tail(parts), sep)

\* Array.prototype.includes.
includes(arr, x) == \E i \in 1..Len(arr) : arr[i] = x

AllDigits(s) == \A i \in 1..Len(s) : IsDigit(Char(s, i))

RECURSIVE DecimalValue(_)
DecimalValue(s) ==
   IF s = "" THEN 0 ELSE 10 * DecimalValue(SubSeq(s, 1, Len(s) - 1)) + DigitVal(Char(s, Len(s)))

RECURSIVE Pow10(_)
Pow10(k) == IF k = 0 THEN 1 ELSE 10 * Pow10(k - 1)

\* Number(s) for the segments of a version string: "" is 0, a run of decimal
\* digits is its value, anything else (a letter such as the x of 2.1.x) is NaN.
\* Signs, exponents, hexadecimal and surrounding blanks are outside the
\* alphabet the model draws versions from.
Number(s) == IF s = "" THEN 0 ELSE IF AllDigits(s) THEN DecimalValue(s) ELSE NaN

\* `n || 0` on a number or a missing array element.
OrZero(n) == IF n = NaN THEN 0 ELSE n

(***************************************************************************)
(* VersionComparator.                                                      *)
(***************************************************************************)
Max(a, b) == IF a >= b THEN a ELSE b

VersionPart(parts, i) == IF i <= Len(parts) THEN OrZero(Number(parts[i])) ELSE 0

\* Order of two digit strings as strings (the < of JavaScript on strings).
RECURSIVE StringOrder(_, _)
StringOrder(a, b) ==
   IF a = "" /\ b = "" THEN 0
   ELSE IF a = "" THEN -1
   ELSE IF b = "" THEN 1
   ELSE IF DigitVal(Char(a, 1)) < DigitVal(Char(b, 1)) THEN -1
   ELSE IF DigitVal(Char(a, 1)) > DigitVal(Char(b, 1)) THEN 1
   ELSE StringOrder(Tail(a), Tail(b))

\* compareVersions without map(Number): the segments are compared as strings.
RECURSIVE compareVersionsLexical(_, _, _)
compareVersionsLexical(v1Parts, v2Parts, i) ==
   IF i > Max(Len(v1Parts), Len(v2Parts)) THEN 0
   ELSE LET p1 == IF i <= Len(v1Parts) THEN v1Parts[i] ELSE "0"
            p2 == IF i <= Len(v2Parts) THEN v2Parts[i] ELSE "0"
        IN  IF StringOrder(p1, p2) # 0 THEN StringOrder(p1, p2)
            ELSE compareVersionsLexical(v1Parts, v2Parts, i + 1)

RECURSIVE compareVersionsFrom(_, _, _)
compareVersionsFrom(v1Parts, v2Parts, i) ==
   IF i > Max(Len(v1Parts), Len(v2Parts)) THEN 0
   ELSE IF VersionPart(v1Parts, i) < VersionPart(v2Parts, i) THEN -1
   ELSE IF VersionPart(v1Parts, i) > VersionPart(v2Parts, i) THEN 1
   ELSE compareVersionsFrom(v1Parts, v2Parts, i + 1)

compareVersions(version1, version2) ==
   compareVersionsFrom(split(version1, "."), split(version2, "."), 1)

getFrameworkType(framework) ==
   LET lower == toLowerCase(framework) IN
   IF startsWith(lower, "netframework")
      \/ (/\ startsWith(lower, "net")
          /\ Len(lower) >= 5
          /\ Char(lower, 4) \in {"1", "2", "3", "4"}
          /\ Char(lower, 5) = ".")
   THEN "netframework"
   ELSE IF startsWith(lower, "netcoreapp") THEN "netcoreapp"
   ELSE IF startsWith(lower, "netstandard") THEN "netstandard"
   ELSE IF startsWith(lower, "net") THEN "net"
   ELSE "unknown"

\* Length of the longest run of digits of s that starts at position i.
RECURSIVE DigitRun(_, _)
DigitRun(s, i) ==
   IF i <= Len(s) /\ IsDigit(Char(s, i)) THEN 1 + DigitRun(s, i + 1) ELSE 0

\* Position of the first digit of s at or after i, 0 when there is none.
RECURSIVE FirstDigit(_, _)
FirstDigit(s, i) ==
   IF i > Len(s) THEN 0 ELSE IF IsDigit(Char(s, i)) THEN i ELSE FirstDigit(s, i + 1)

\* framework.match(/(\d+(?:\.\d+)?)/): the leftmost run of digits, extended by
\* a dot and a further run of digits when one follows; Undefined for no match.
extractVersionNumber(framework) ==
   LET start == FirstDigit(framework, 1) IN
   IF start = 0 THEN Undefined
   ELSE LET intLen == DigitRun(framework, start)
            dot == start + intLen
            fracLen == IF dot <= Len(framework) /\ Char(framework, dot) = "."
                       THEN DigitRun(framework, dot + 1) ELSE 0
        IN  IF fracLen > 0 THEN SubSeq(framework, start, dot + fracLen)
            ELSE SubSeq(framework, start, dot - 1)

\* parseFloat of a string produced by extractVersionNumber, as the exact
\* fraction num/den.
parseFloat(s) ==
   LET parts == split(s, ".") IN
   IF Len(parts) = 1 THEN [num |-> DecimalValue(parts[1]), den |-> 1]
   ELSE [num |-> DecimalValue(parts[1]) * Pow10(Len(parts[2])) + DecimalValue(parts[2]),
         den |-> Pow10(Len(parts[2]))]

Abs(n) == IF n < 0 THEN 0 - n ELSE n

\* Pairs 10x, 10(x+1) of values x with at most one decimal, below 100, whose
\* IEEE-754 double difference is below 1 although the exact difference is 1
\* (4.1 - 3.1 = 0.9999999999999996); every other pair of such values
\* subtracts to the side of 1.0 that its exact difference is on.
RoundsBelowOne == {<<4, 14>>, <<9, 19>>, <<13, 23>>, <<18, 28>>, <<31, 41>>,
                   <<36, 46>>, <<72, 82>>, <<77, 87>>, <<154, 164>>, <<159, 169>>,
                   <<313, 323>>, <<318, 328>>, <<631, 641>>, <<636, 646>>}

\* Math.abs(a - b) < 1.0 on doubles.
AbsDiffBelowOne(a, b) ==
   \/ Abs(a.num * b.den - b.num * a.den) < a.den * b.den
   \/ /\ a.den \in {1, 10} /\ b.den \in {1, 10}
      /\ LET x == (a.num * 10) \div a.den
             y == (b.num * 10) \div b.den
         IN  <<x, y>> \in RoundsBelowOne \/ <<y, x>> \in RoundsBelowOne

\* matchesFramework with the version test applied to every family.
matchesFrameworkAnyFamily(framework1, framework2) ==
   IF toLowerCase(framework1) = toLowerCase(framework2) THEN TRUE
   ELSE IF getFrameworkType(framework1) # getFrameworkType(framework2) THEN FALSE
   ELSE IF Truthy(extractVersionNumber(framework1))
           /\ Truthy(extractVersionNumber(framework2))
   THEN AbsDiffBelowOne(parseFloat(extractVersionNumber(framework1)),
                        parseFloat(extractVersionNumber(framework2)))
   ELSE FALSE

matchesFramework(framework1, framework2) ==
   IF toLowerCase(framework1) = toLowerCase(framework2) THEN TRUE
   ELSE IF getFrameworkType(framework1) # getFrameworkType(framework2) THEN FALSE
   ELSE IF getFrameworkType(framework1) \in {"net", "netcoreapp"}
           /\ Truthy(extractVersionNumber(framework1))
           /\ Truthy(extractVersionNumber(framework2))
   THEN AbsDiffBelowOne(parseFloat(extractVersionNumber(framework1)),
                        parseFloat(extractVersionNumber(framework2)))
   ELSE FALSE

\* { type, version } or Null when the moniker has no digits.
parseFrameworkVersion(framework) ==
   IF extractVersionNumber(framework) = Undefined THEN Null
   ELSE [type |-> getFrameworkType(framework),
         version |-> parseFloat(extractVersionNumber(framework))]

\* The four type names in String.prototype.localeCompare order.
TypeRank(t) ==
   CASE t = "net" -> 1 [] t = "netcoreapp" -> 2 [] t = "netframework" -> 3
     [] t = "netstandard" -> 4 [] OTHER -> 5

\* compareFrameworks without the comparison of the types.
compareFrameworksByVersion(fw1, fw2) ==
   LET d == fw1.version.num * fw2.version.den - fw2.version.num * fw1.version.den
   IN  IF d < 0 THEN -1 ELSE IF d > 0 THEN 1 ELSE 0

\* Sign of compareFrameworks(fw1, fw2); its callers only test < 0 and > 0.
compareFrameworks(fw1, fw2) ==
   IF fw1.type # fw2.type
   THEN (IF TypeRank(fw1.type) < TypeRank(fw2.type) THEN -1 ELSE 1)
   ELSE LET d == fw1.version.num * fw2.version.den - fw2.version.num * fw1.version.den
        IN  IF d < 0 THEN -1 ELSE IF d > 0 THEN 1 ELSE 0

(***************************************************************************)
(* RuleCatalog.  A rule is a record that has exactly the fields the        *)
(* object literal has; a packageNamePattern /^P/ is kept as the prefix P   *)
(* (every pattern of the catalog is an anchored literal prefix).           *)
(***************************************************************************)
Has(rec, field) == field \in DOMAIN rec

\* The element of a set of one element.
The(S) == CHOOSE x \in S : TRUE

initializeCompatibilityRules ==
   <<
      [packageName |-> "Microsoft.AspNetCore.App",
       supportedFrameworks |->
         <<"netcoreapp2.1", "netcoreapp2.2", "netcoreapp3.1", "net5.0", "net6.0", "net7.0", "net8.0">>,
       versionRules |-> [frameworkVersions |->
            ("netcoreapp2.1" :> [min |-> "2.1.0", max |-> "2.1.x"])
         @@ ("netcoreapp2.2" :> [min |-> "2.2.0", max |-> "2.2.x"])
         @@ ("netcoreapp3.1" :> [min |-> "3.1.0", max |-> "3.1.x"])
         @@ ("net5.0" :> [min |-> "5.0.0", max |-> "5.0.x"])
         @@ ("net6.0" :> [min |-> "6.0.0", max |-> "6.0.x"])
         @@ ("net7.0" :> [min |-> "7.0.0", max |-> "7.0.x"])
         @@ ("net8.0" :> [min |-> "8.0.0"])]],
      [packageName |-> "Microsoft.AspNetCore.Mvc",
       supportedFrameworks |->
         <<"netcoreapp2.0", "netcoreapp2.1", "netcoreapp2.2", "netcoreapp3.1", "net5.0", "net6.0", "net7.0", "net8.0">>,
       versionRules |-> [frameworkVersions |->
            ("netcoreapp2.0" :> [min |-> "2.0.0", max |-> "2.0.x"])
         @@ ("netcoreapp2.1" :> [min |-> "2.1.0", max |-> "2.1.x"])
         @@ ("netcoreapp2.2" :> [min |-> "2.2.0", max |-> "2.2.x"])
         @@ ("netcoreapp3.1" :> [min |-> "3.1.0", max |-> "3.1.x"])
         @@ ("net5.0" :> [min |-> "5.0.0", max |-> "5.0.x"])
         @@ ("net6.0" :> [min |-> "6.0.0", max |-> "6.0.x"])
         @@ ("net7.0" :> [min |-> "7.0.0", max |-> "7.0.x"])
         @@ ("net8.0" :> [min |-> "8.0.0"])]],
      [packageNamePattern |-> "Microsoft.AspNetCore.",
       supportedFrameworks |->
         <<"netcoreapp2.0", "netcoreapp2.1", "netcoreapp2.2", "netcoreapp3.1", "net5.0", "net6.0", "net7.0", "net8.0">>,
       minFramework |-> "netcoreapp2.0"],
      [packageName |-> "Microsoft.AspNet.Mvc",
       supportedFrameworks |->
         <<"net40", "net45", "net451", "net452", "net46", "net461", "net462", "net47", "net471", "net472", "net48">>,
       maxFramework |-> "net48"],
      [packageName |-> "System.Web.Mvc",
       supportedFrameworks |->
         <<"net40", "net45", "net451", "net452", "net46", "net461", "net462", "net47", "net471", "net472", "net48">>,
       maxFramework |-> "net48"],
      [packageName |-> "Microsoft.AspNet.WebApi",
       supportedFrameworks |->
         <<"net40", "net45", "net451", "net452", "net46", "net461", "net462", "net47", "net471", "net472", "net48">>,
       maxFramework |-> "net48"],
      [packageName |-> "System.Web.Http",
       supportedFrameworks |->
         <<"net40", "net45", "net451", "net452", "net46", "net461", "net462", "net47", "net471", "net472", "net48">>,
       maxFramework |-> "net48"],
      [packageName |-> "Microsoft.EntityFrameworkCore",
       supportedFrameworks |->
         <<"netstandard2.0", "netstandard2.1", "netcoreapp2.0", "netcoreapp2.1", "netcoreapp3.1", "net5.0", "net6.0", "net7.0", "net8.0">>,
       minFramework |-> "netstandard2.0"],
      [packageName |-> "EntityFramework",
       supportedFrameworks |->
         <<"net40", "net45", "net451", "net452", "net46", "net461", "net462", "net47", "net471", "net472", "net48">>,
       maxFramework |-> "net48",
       versionRules |-> [frameworkVersions |->
            ("net40" :> [max |-> "6.0.0"])
         @@ ("net45" :> [max |-> "6.0.0"])
         @@ ("net451" :> [max |-> "6.0.0"])
         @@ ("net452" :> [max |-> "6.0.0"])
         @@ ("net46" :> [max |-> "6.0.0"])
         @@ ("net461" :> [max |-> "6.4.4"])
         @@ ("net462" :> [max |-> "6.4.4"])
         @@ ("net47" :> [max |-> "6.4.4"])
         @@ ("net471" :> [max |-> "6.4.4"])
         @@ ("net472" :> [max |-> "6.4.4"])
         @@ ("net48" :> [max |-> "6.4.4"])]],
      [packageNamePattern |-> "Microsoft.EntityFrameworkCore.",
       supportedFrameworks |->
         <<"netstandard2.0", "netstandard2.1", "netcoreapp2.0", "netcoreapp2.1", "netcoreapp3.1", "net5.0", "net6.0", "net7.0", "net8.0">>,
       minFramework |-> "netstandard2.0"],
      [packageName |-> "Microsoft.Extensions.Hosting",
       supportedFrameworks |->
         <<"netcoreapp2.1", "netcoreapp3.1", "net5.0", "net6.0", "net7.0", "net8.0">>,
       minFramework |-> "netcoreapp2.1"],
      [packageName |-> "Microsoft.Extensions.DependencyInjection",
       supportedFrameworks |->
         <<"netstandard1.0", "netstandard1.1", "netstandard2.0", "netcoreapp1.0", "netcoreapp2.0", "netcoreapp2.1", "netcoreapp3.1", "net5.0", "net6.0", "net7.0", "net8.0">>,
       minFramework |-> "netstandard1.0"],
      [packageName |-> "Microsoft.Extensions.Logging",
       supportedFrameworks |->
         <<"netstandard1.1", "netstandard1.3", "netstandard2.0", "netcoreapp1.0", "netcoreapp2.0", "netcoreapp2.1", "netcoreapp3.1", "net5.0", "net6.0", "net7.0", "net8.0">>,
       minFramework |-> "netstandard1.1"],
      [packageName |-> "Microsoft.Extensions.Configuration",
       supportedFrameworks |->
         <<"netstandard1.1", "netstandard1.3", "netstandard2.0", "netcoreapp1.0", "netcoreapp2.0", "netcoreapp2.1", "netcoreapp3.1", "net5.0", "net6.0", "net7.0", "net8.0">>,
       minFramework |-> "netstandard1.1"],
      [packageNamePattern |-> "Microsoft.Extensions.",
       supportedFrameworks |->
         <<"netstandard1.0", "netstandard1.1", "netstandard2.0", "netcoreapp1.0", "netcoreapp2.0", "netcoreapp2.1", "netcoreapp3.1", "net5.0", "net6.0", "net7.0", "net8.0">>,
       minFramework |-> "netstandard1.0"],
      [packageName |-> "Microsoft.AspNetCore.Components.Web",
       supportedFrameworks |->
         <<"netcoreapp3.1", "net5.0", "net6.0", "net7.0", "net8.0">>,
       minFramework |-> "netcoreapp3.1"],
      [packageName |-> "Microsoft.AspNetCore.Components.WebAssembly",
       supportedFrameworks |->
         <<"netstandard2.1", "net5.0", "net6.0", "net7.0", "net8.0">>,
       minFramework |-> "netstandard2.1"],
      [packageNamePattern |-> "Microsoft.AspNetCore.Components.",
       supportedFrameworks |->
         <<"netcoreapp3.1", "net5.0", "net6.0", "net7.0", "net8.0">>,
       minFramework |-> "netcoreapp3.1"],
      [packageName |-> "Microsoft.AspNetCore.SignalR",
       supportedFrameworks |->
         <<"netcoreapp2.1", "netcoreapp2.2", "netcoreapp3.1", "net5.0", "net6.0", "net7.0", "net8.0">>,
       minFramework |-> "netcoreapp2.1"],
      [packageName |-> "Microsoft.AspNetCore.SignalR.Client",
       supportedFrameworks |->
         <<"netstandard2.0", "netstandard2.1", "netcoreapp2.1", "netcoreapp2.2", "netcoreapp3.1", "net5.0", "net6.0", "net7.0", "net8.0">>,
       minFramework |-> "netstandard2.0"],
      [packageName |-> "Grpc.Net.Client",
       supportedFrameworks |->
         <<"netstandard2.1", "netcoreapp3.0", "netcoreapp3.1", "net5.0", "net6.0", "net7.0", "net8.0">>,
       minFramework |-> "netstandard2.1"],
      [packageName |-> "Grpc.AspNetCore",
       supportedFrameworks |->
         <<"netcoreapp3.0", "netcoreapp3.1", "net5.0", "net6.0", "net7.0", "net8.0">>,
       minFramework |-> "netcoreapp3.0"],
      [packageNamePattern |-> "Grpc.",
       supportedFrameworks |->
         <<"netstandard2.1", "netcoreapp3.0", "netcoreapp3.1", "net5.0", "net6.0", "net7.0", "net8.0">>,
       minFramework |-> "netstandard2.1"],
      [packageName |-> "Newtonsoft.Json",
       supportedFrameworks |->
         <<"net20", "net35", "net40", "net45", "netstandard1.0", "netstandard1.3", "netstandard2.0", "netcoreapp1.0", "netcoreapp2.0", "netcoreapp2.1", "netcoreapp3.1", "net5.0", "net6.0", "net7.0", "net8.0">>,
       minFramework |-> "net20"],
      [packageName |-> "System.Text.Json",
       supportedFrameworks |->
         <<"netstandard2.0", "netcoreapp2.1", "netcoreapp3.0", "netcoreapp3.1", "net5.0", "net6.0", "net7.0", "net8.0">>,
       minFramework |-> "netstandard2.0"],
      [packageName |-> "xunit",
       supportedFrameworks |->
         <<"netstandard1.1", "netstandard1.3", "netstandard2.0", "netcoreapp1.0", "netcoreapp2.0", "netcoreapp2.1", "netcoreapp3.1", "net5.0", "net6.0", "net7.0", "net8.0">>,
       minFramework |-> "netstandard1.1"],
      [packageName |-> "NUnit",
       supportedFrameworks |->
         <<"netstandard1.6", "netstandard2.0", "netcoreapp1.0", "netcoreapp2.0", "netcoreapp2.1", "netcoreapp3.1", "net5.0", "net6.0", "net7.0", "net8.0">>,
       minFramework |-> "netstandard1.6"],
      [packageName |-> "Moq",
       supportedFrameworks |->
         <<"netstandard2.0", "netstandard2.1", "netcoreapp2.0", "netcoreapp2.1", "netcoreapp3.1", "net5.0", "net6.0", "net7.0", "net8.0">>,
       minFramework |-> "netstandard2.0"],
      [packageName |-> "AutoMapper",
       supportedFrameworks |->
         <<"netstandard2.0", "netstandard2.1", "netcoreapp2.0", "netcoreapp2.1", "netcoreapp3.1", "net5.0", "net6.0", "net7.0", "net8.0">>,
       minFramework |-> "netstandard2.0"],
      [packageName |-> "Serilog",
       supportedFrameworks |->
         <<"netstandard1.5", "netstandard2.0", "netcoreapp1.0", "netcoreapp2.0", "netcoreapp2.1", "netcoreapp3.1", "net5.0", "net6.0", "net7.0", "net8.0">>,
       minFramework |-> "netstandard1.5"],
      [packageNamePattern |-> "Serilog.",
       supportedFrameworks |->
         <<"netstandard1.5", "netstandard2.0", "netcoreapp1.0", "netcoreapp2.0", "netcoreapp2.1", "netcoreapp3.1", "net5.0", "net6.0", "net7.0", "net8.0">>,
       minFramework |-> "netstandard1.5"],
      [packageName |-> "FluentValidation",
       supportedFrameworks |->
         <<"netstandard2.0", "netcoreapp2.0", "netcoreapp2.1", "netcoreapp3.1", "net5.0", "net6.0", "net7.0", "net8.0">>,
       minFramework |-> "netstandard2.0"],
      [packageName |-> "MediatR",
       supportedFrameworks |->
         <<"netstandard2.0", "netstandard2.1", "netcoreapp2.0", "netcoreapp2.1", "netcoreapp3.1", "net5.0", "net6.0", "net7.0", "net8.0">>,
       minFramework |-> "netstandard2.0"],
      [packageNamePattern |-> "System.",
       minFramework |-> "netstandard1.0"]
   >>

\* ExactMatch with the names compared ignoring case.
ExactMatchIgnoringCase(rule, packageName) ==
   Has(rule, "packageName") /\ toLowerCase(rule.packageName) = toLowerCase(packageName)

ExactMatch(rule, packageName) == Has(rule, "packageName") /\ rule.packageName = packageName

PatternMatch(rule, packageName) ==
   Has(rule, "packageNamePattern") /\ startsWith(packageName, rule.packageNamePattern)

\* rules.find(r => r.packageName === packageName) from position i: an index, or 0.
RECURSIVE FindExact(_, _, _)
FindExact(rules, packageName, i) ==
   IF i > Len(rules) THEN 0
   ELSE IF ExactMatch(rules[i], packageName) THEN i
   ELSE FindExact(rules, packageName, i + 1)

\* The last rule whose pattern matches, in place of the first.
FindPatternLast(rules, packageName, i) ==
   IF \E k \in i..Len(rules) : PatternMatch(rules[k], packageName)
   THEN CHOOSE k \in i..Len(rules) :
           /\ PatternMatch(rules[k], packageName)
           /\ \A j \in (k + 1)..Len(rules) : ~PatternMatch(rules[j], packageName)
   ELSE 0

\* rules.find(r => r.packageNamePattern && r.packageNamePattern.test(packageName)).
RECURSIVE FindPattern(_, _, _)
FindPattern(rules, packageName, i) ==
   IF i > Len(rules) THEN 0
   ELSE IF PatternMatch(rules[i], packageName) THEN i
   ELSE FindPattern(rules, packageName, i + 1)

\* The rule for a package in a catalog, Null when there is none.
findRuleIn(rules, packageName) ==
   LET e == FindExact(rules, packageName, 1) IN
   IF e # 0 THEN rules[e]
   ELSE LET p == FindPattern(rules, packageName, 1) IN
        IF p # 0 THEN rules[p] ELSE Null

findRuleForPackage(packageName) == findRuleIn(initializeCompatibilityRules, packageName)

\* isFrameworkCompatible deciding by maxFramework alone when the rule has one.
isFrameworkCompatibleByBound(targetFramework, rule) ==
   IF Has(rule, "maxFramework") /\ parseFrameworkVersion(targetFramework) # Null
   THEN compareFrameworks(parseFrameworkVersion(targetFramework),
                          parseFrameworkVersion(rule.maxFramework)) <= 0
   ELSE IF Has(rule, "supportedFrameworks")
   THEN \E i \in 1..Len(rule.supportedFrameworks) :
           matchesFramework(targetFramework, rule.supportedFrameworks[i])
   ELSE TRUE

isFrameworkCompatible(targetFramework, rule) ==
   IF Has(rule, "supportedFrameworks")
   THEN \E i \in 1..Len(rule.supportedFrameworks) :
           matchesFramework(targetFramework, rule.supportedFrameworks[i])
   ELSE IF (Has(rule, "minFramework") /\ rule.minFramework # "")
            \/ (Has(rule, "maxFramework") /\ rule.maxFramework # "")
   THEN LET versionInfo == parseFrameworkVersion(targetFramework) IN
        IF versionInfo = Null THEN TRUE
        ELSE IF /\ Has(rule, "minFramework") /\ rule.minFramework # ""
                /\ parseFrameworkVersion(rule.minFramework) # Null
                /\ compareFrameworks(versionInfo, parseFrameworkVersion(rule.minFramework)) < 0
        THEN FALSE
        ELSE IF /\ Has(rule, "maxFramework") /\ rule.maxFramework # ""
                /\ parseFrameworkVersion(rule.maxFramework) # Null
                /\ compareFrameworks(versionInfo, parseFrameworkVersion(rule.maxFramework)) > 0
        THEN FALSE
        ELSE TRUE
   ELSE TRUE

\* A CompatibilityIssue.
Issue(packageName, packageVersion, targetFramework, issueType, message, recommendation) ==
   [packageName |-> packageName, packageVersion |-> packageVersion,
    targetFramework |-> targetFramework, issueType |-> issueType,
    message |-> message, recommendation |-> recommendation]

checkVersionCompatibility(packageName, packageVersion, targetFramework, rule) ==
   IF ~Has(rule, "versionRules") THEN Null
   ELSE
   LET versionRules == rule.versionRules
       hasFw == /\ Has(versionRules, "frameworkVersions")
                /\ targetFramework \in DOMAIN versionRules.frameworkVersions
       fw == versionRules.frameworkVersions[targetFramework]
       pre == "Package " \o packageName \o " version " \o packageVersion
   IN
   IF hasFw /\ Has(fw, "min") /\ fw.min # "" /\ compareVersions(packageVersion, fw.min) < 0
   THEN Issue(packageName, packageVersion, targetFramework, "version_mismatch",
              pre \o " is too old for " \o targetFramework,
              "Upgrade to at least version " \o fw.min)
   ELSE IF hasFw /\ Has(fw, "max") /\ fw.max # "" /\ compareVersions(packageVersion, fw.max) > 0
   THEN Issue(packageName, packageVersion, targetFramework, "version_mismatch",
              pre \o " is too new for " \o targetFramework,
              "Use version " \o fw.max \o " or lower")
   ELSE IF /\ Has(versionRules, "minVersion") /\ versionRules.minVersion # ""
           /\ compareVersions(packageVersion, versionRules.minVersion) < 0
   THEN Issue(packageName, packageVersion, targetFramework, "version_mismatch",
              pre \o " is too old",
              "Upgrade to at least version " \o versionRules.minVersion)
   ELSE IF /\ Has(versionRules, "maxVersion") /\ versionRules.maxVersion # ""
           /\ compareVersions(packageVersion, versionRules.maxVersion) > 0
   THEN Issue(packageName, packageVersion, targetFramework, "version_mismatch",
              pre \o " is too new",
              "Use version " \o versionRules.maxVersion \o " or lower")
   ELSE Null

\* checkRule with the framework test ahead of the deprecated-version test.
checkRuleFrameworkFirst(rule, packageName, packageVersion, targetFramework) ==
   IF rule = Null THEN Null
   ELSE IF ~isFrameworkCompatible(targetFramework, rule)
   THEN Issue(packageName, packageVersion, targetFramework, "incompatible",
              "Package " \o packageName \o " is not compatible with " \o targetFramework,
              "Check package documentation for supported frameworks")
   ELSE IF /\ Truthy(packageVersion)
           /\ Has(rule, "deprecatedVersions")
           /\ includes(rule.deprecatedVersions, packageVersion)
   THEN Issue(packageName, packageVersion, targetFramework, "deprecated",
              "Package " \o packageName \o " version " \o packageVersion \o " is deprecated",
              "Consider upgrading to a newer version")
   ELSE IF Truthy(packageVersion) /\ Has(rule, "versionRules")
           /\ checkVersionCompatibility(packageName, packageVersion, targetFramework, rule) # Null
   THEN checkVersionCompatibility(packageName, packageVersion, targetFramework, rule)
   ELSE Null

\* checkCompatibilityLocal once findRuleForPackage has produced `rule`.
checkRule(rule, packageName, packageVersion, targetFramework) ==
   IF rule = Null THEN Null
   ELSE IF /\ Truthy(packageVersion)
           /\ Has(rule, "deprecatedVersions")
           /\ includes(rule.deprecatedVersions, packageVersion)
   THEN Issue(packageName, packageVersion, targetFramework, "deprecated",
              "Package " \o packageName \o " version " \o packageVersion \o " is deprecated",
              "Consider upgrading to a newer version")
   ELSE IF ~isFrameworkCompatible(targetFramework, rule)
   THEN LET supportedFrameworks ==
               IF Has(rule, "supportedFrameworks") THEN rule.supportedFrameworks ELSE <<>>
        IN  Issue(packageName, packageVersion, targetFramework, "incompatible",
                  "Package " \o packageName \o " is not compatible with " \o targetFramework,
                  IF Len(supportedFrameworks) > 0
                  THEN "This package requires one of: " \o join(supportedFrameworks, ", ")
                  ELSE "Check package documentation for supported frameworks")
   ELSE IF Truthy(packageVersion) /\ Has(rule, "versionRules")
           /\ checkVersionCompatibility(packageName, packageVersion, targetFramework, rule) # Null
   THEN checkVersionCompatibility(packageName, packageVersion, targetFramework, rule)
   ELSE Null

checkCompatibilityLocal(packageName, packageVersion, targetFramework) ==
   checkRule(findRuleForPackage(packageName), packageName, packageVersion, targetFramework)

(***************************************************************************)
(* RemoteMetadataSource.  A response is what one https.get ends in:        *)
(* a transport error, the request timeout, a status other than 200, a body *)
(* JSON.parse rejects, or a parsed body; `versions` is json.versions || [].*)
(***************************************************************************)
FailureKinds == {"error", "timeout", "non200", "unparseable"}

Failure(kind) == [kind |-> kind]
Success(versions) == [kind |-> "ok", versions |-> versions]

\* fetchPackageInfo reporting every package it finds as deprecated.
fetchPackageInfoDeprecated(packageName, response) ==
   IF response.kind # "ok" THEN Null
   ELSE [packageId |-> packageName, versions |-> response.versions, deprecated |-> TRUE]

\* fetchPackageInfo without the test of res.statusCode: the body of an error
\* response is parsed and has no versions.
fetchPackageInfoAnyStatus(packageName, response) ==
   IF response.kind \in {"error", "timeout", "unparseable"} THEN Null
   ELSE [packageId |-> packageName,
         versions |-> IF response.kind = "ok" THEN response.versions ELSE <<>>,
         deprecated |-> FALSE]

\* NuGetPackageInfoExtended, or Null.
fetchPackageInfo(packageName, response) ==
   IF response.kind # "ok" THEN Null
   ELSE [packageId |-> packageName, versions |-> response.versions, deprecated |-> FALSE]

\* packageInfo.versions[packageInfo.versions.length - 1] inside a template string.
LastOrUndefined(versions) == IF Len(versions) = 0 THEN "undefined" ELSE versions[Len(versions)]

\* CompatibilityIssue, Null (compatible) or UndefinedIssue (lookup failed).
checkCompatibilityViaAPI(packageName, packageVersion, targetFramework, response) ==
   LET packageInfo == fetchPackageInfo(packageName, response) IN
   IF packageInfo = Null THEN UndefinedIssue
   ELSE IF packageInfo.deprecated
   THEN Issue(packageName, packageVersion, targetFramework, "deprecated",
              "Package " \o packageName \o " is deprecated",
              "Consider using an alternative package")
   ELSE IF /\ Has(packageInfo, "supportedFrameworks")
           /\ Len(packageInfo.supportedFrameworks) > 0
           /\ ~\E i \in 1..Len(packageInfo.supportedFrameworks) :
                 matchesFramework(targetFramework, packageInfo.supportedFrameworks[i])
   THEN Issue(packageName, packageVersion, targetFramework, "incompatible",
              "Package " \o packageName \o " is not compatible with " \o targetFramework,
              "This package supports: " \o join(packageInfo.supportedFrameworks, ", "))
   ELSE IF Truthy(packageVersion) /\ ~includes(packageInfo.versions, packageVersion)
   THEN Issue(packageName, packageVersion, targetFramework, "version_mismatch",
              "Package " \o packageName \o " version " \o packageVersion \o " not found",
              "Latest version is " \o LastOrUndefined(packageInfo.versions))
   ELSE Null

(***************************************************************************)
(* Configuration and ignore patterns.                                      *)
(***************************************************************************)
\* WildcardTest without the 'i' flag.
RECURSIVE WildcardTestCaseSensitive(_, _)
WildcardTestCaseSensitive(pattern, name) ==
   IF pattern = "" THEN name = ""
   ELSE IF Char(pattern, 1) = "*"
   THEN \/ WildcardTestCaseSensitive(Tail(pattern), name)
        \/ name # "" /\ WildcardTestCaseSensitive(pattern, Tail(name))
   ELSE /\ name # ""
        /\ Char(pattern, 1) = Char(name, 1)
        /\ WildcardTestCaseSensitive(Tail(pattern), Tail(name))

\* new RegExp('^' + pattern with . escaped and * as .* + '$', 'i').test(name),
\* for patterns of letters, digits, dots and stars.
RECURSIVE WildcardTest(_, _)
WildcardTest(pattern, name) ==
   IF pattern = "" THEN name = ""
   ELSE IF Char(pattern, 1) = "*"
   THEN \/ WildcardTest(Tail(pattern), name)
        \/ name # "" /\ WildcardTest(pattern, Tail(name))
   ELSE /\ name # ""
        /\ LowerChar(Char(pattern, 1)) = LowerChar(Char(name, 1))
        /\ WildcardTest(Tail(pattern), Tail(name))

isPackageIgnored(cfg, packageName) ==
   \E i \in 1..Len(cfg.nugetIgnoredPackages) :
      \/ cfg.nugetIgnoredPackages[i] = packageName
      \/ WildcardTest(cfg.nugetIgnoredPackages[i], packageName)

(***************************************************************************)
(* ResultCache: a function from keys to CacheEntry records.                *)
(***************************************************************************)
CacheKey(packageName, packageVersion, targetFramework) ==
   packageName \o "|" \o (IF Truthy(packageVersion) THEN packageVersion ELSE "latest")
               \o "|" \o targetFramework

\* Expired with the boundary instant counted as expired.
ExpiredInclusive(cfg, entry, time) == time - entry.timestamp >= cfg.nugetCacheExpiry * 1000

Expired(cfg, entry, time) == time - entry.timestamp > cfg.nugetCacheExpiry * 1000

Remove(c, key) == [k \in DOMAIN c \ {key} |-> c[k]]

\* [value, cache]: the entry's value or UndefinedIssue, and the cache after
\* the read (an expired entry is deleted by the read).
getCachedResult(cfg, c, time, key) ==
   IF key \notin DOMAIN c THEN [value |-> UndefinedIssue, cache |-> c]
   ELSE IF Expired(cfg, c[key], time) THEN [value |-> UndefinedIssue, cache |-> Remove(c, key)]
   ELSE [value |-> c[key].value, cache |-> c]

setCachedResult(c, time, key, value) ==
   [k \in DOMAIN c \cup {key} |->
      IF k = key THEN [key |-> key, value |-> value, timestamp |-> time] ELSE c[k]]

(***************************************************************************)
(* The strings the model calls the resolver with.  The verdict of the      *)
(* local rules, the ignore test and the cache key are functions of these   *)
(* strings alone; they are tabulated once over the universe and looked up  *)
(* at every call.                                                          *)
(***************************************************************************)
PackageNames == {"EntityFramework", "Newtonsoft.Json"}
PackageVersions == {Undefined, "6.4.4"}
TargetFrameworks == {"net8.0", "net48"}
IgnoreLists == {<<>>, <<"entity*">>, <<"Newtonsoft.Json">>}

\* suggestAlternative: the known alternatives (first entry of each list).
alternatives ==
   ("Microsoft.AspNet.Mvc" :>
       [name |-> "Microsoft.AspNetCore.Mvc",
        reason |-> "Modern ASP.NET Core MVC for .NET Core/.NET 5+"])
   @@ ("System.Web.Mvc" :>
       [name |-> "Microsoft.AspNetCore.Mvc",
        reason |-> "Modern ASP.NET Core MVC for .NET Core/.NET 5+"])
   @@ ("EntityFramework" :>
       [name |-> "Microsoft.EntityFrameworkCore",
        reason |-> "Modern Entity Framework Core for .NET Core/.NET 5+"])
   @@ ("Newtonsoft.Json" :>
       [name |-> "System.Text.Json",
        reason |-> "Built-in JSON serialization in .NET Core/.NET 5+"])

\* suggestFrameworkUpgrade: the framework upgrade paths.
upgradePaths ==
   ("netcoreapp2.0" :> <<"netcoreapp2.1", "netcoreapp3.1", "net5.0", "net6.0", "net7.0", "net8.0">>)
   @@ ("netcoreapp2.1" :> <<"netcoreapp3.1", "net5.0", "net6.0", "net7.0", "net8.0">>)
   @@ ("netcoreapp2.2" :> <<"netcoreapp3.1", "net5.0", "net6.0", "net7.0", "net8.0">>)
   @@ ("netcoreapp3.0" :> <<"netcoreapp3.1", "net5.0", "net6.0", "net7.0", "net8.0">>)
   @@ ("netcoreapp3.1" :> <<"net5.0", "net6.0", "net7.0", "net8.0">>)
   @@ ("net5.0" :> <<"net6.0", "net7.0", "net8.0">>)
   @@ ("net6.0" :> <<"net7.0", "net8.0">>)
   @@ ("net7.0" :> <<"net8.0">>)
   @@ ("netstandard2.0" :> <<"netstandard2.1", "netcoreapp3.1", "net5.0", "net6.0", "net7.0", "net8.0">>)
   @@ ("netstandard2.1" :> <<"netcoreapp3.1", "net5.0", "net6.0", "net7.0", "net8.0">>)

Range(f) == {f[x] : x \in DOMAIN f}

\* Every package name, version and framework a call can be made with: the
\* arguments, the alternatives of the arguments and the upgrade candidates.
ListedNames ==
   PackageNames \cup {alternatives[n].name : n \in PackageNames \cap DOMAIN alternatives}

\* Names that no rule of the catalog applies to.
UnlistedNames == {"Acme.Widgets", "entityframework"}

\* A name that only the catch-all rule of line 1439 applies to.
CatchAllNames == {"System.Memory"}

KnownNames == ListedNames \cup UnlistedNames \cup CatchAllNames
\* The version strings of the requests of SpecKeys.
KeyVersions == {Undefined, "6.4.4", "latest"}

KnownVersions == PackageVersions \cup KeyVersions
KnownFrameworks == TargetFrameworks \cup UNION {Range(upgradePaths[f]) : f \in DOMAIN upgradePaths}

localVerdict ==
   [n \in KnownNames, v \in KnownVersions, f \in KnownFrameworks |->
      checkCompatibilityLocal(n, v, f)]

ignored ==
   [l \in IgnoreLists, n \in KnownNames |->
      isPackageIgnored([nugetIgnoredPackages |-> l], n)]

cacheKey ==
   [n \in KnownNames, v \in KnownVersions, f \in KnownFrameworks |-> CacheKey(n, v, f)]

(***************************************************************************)
(* CompatibilityResolver.checkCompatibility, as one uninterrupted call.    *)
(* The result records the returned issue, the cache after the call, the    *)
(* number of remote requests the call issued, whether checkCompatibility-  *)
(* Local ran, and what the cache read found.                               *)
(***************************************************************************)
Outcome(issue, c, requests, local, read) ==
   [issue |-> issue, cache |-> c, requests |-> requests, local |-> local, read |-> read]

\* LocalStep storing the result of the local rules when it is null too.
LocalStepStoringNull(cfg, c, time, key, packageName, packageVersion, targetFramework, requests, read) ==
   LET issue == localVerdict[packageName, packageVersion, targetFramework] IN
   Outcome(issue,
           IF cfg.nugetCacheEnabled THEN setCachedResult(c, time, key, issue) ELSE c,
           requests, TRUE, read)

\* Lines 800-809: the fall back to the local rules.
LocalStep(cfg, c, time, key, packageName, packageVersion, targetFramework, requests, read) ==
   LET issue == localVerdict[packageName, packageVersion, targetFramework] IN
   Outcome(issue,
           IF cfg.nugetCacheEnabled /\ issue # Null THEN setCachedResult(c, time, key, issue) ELSE c,
           requests, TRUE, read)

\* Lines 782-809: the remote lookup and what follows it.
ResolveStep(cfg, c, time, key, packageName, packageVersion, targetFramework, response, read) ==
   The({IF cfg.nugetApiEnabled /\ issue # UndefinedIssue /\ issue # Null
        THEN Outcome(issue,
                     IF cfg.nugetCacheEnabled THEN setCachedResult(c, time, key, issue) ELSE c,
                     1, FALSE, read)
        ELSE LocalStep(cfg, c, time, key, packageName, packageVersion, targetFramework,
                       IF cfg.nugetApiEnabled THEN 1 ELSE 0, read) :
        issue \in {IF cfg.nugetApiEnabled
                   THEN checkCompatibilityViaAPI(packageName, packageVersion, targetFramework,
                                                 response)
                   ELSE UndefinedIssue}})

checkCompatibility(cfg, c, time, packageName, packageVersion, targetFramework, response) ==
   LET key == cacheKey[packageName, packageVersion, targetFramework]
       cached == getCachedResult(cfg, c, time, key)
   IN
   IF ~cfg.nugetCheckEnabled THEN Outcome(Null, c, 0, FALSE, "skipped")
   ELSE IF ignored[cfg.nugetIgnoredPackages, packageName] THEN Outcome(Null, c, 0, FALSE, "skipped")
   ELSE IF cfg.nugetCacheEnabled /\ cached.value # UndefinedIssue
   THEN Outcome(cached.value, c, 0, FALSE, "hit")
   ELSE ResolveStep(cfg, IF cfg.nugetCacheEnabled THEN cached.cache ELSE c, time, key,
                    packageName, packageVersion, targetFramework, response,
                    IF ~cfg.nugetCacheEnabled THEN "off"
                    ELSE IF key \in DOMAIN c THEN "expired" ELSE "miss")

(***************************************************************************)
(* The resolver as a state machine.                                        *)
(*   config  - this.config, the settings object read at construction       *)
(*   cache   - this.cache                                                  *)
(*   now     - Date.now(), in milliseconds                                 *)
(*   ncalls  - number of operations started so far                         *)
(*   last    - the most recent operation: its arguments and what it did    *)
(***************************************************************************)
VARIABLES config, cache, now, ncalls, last

vars == <<config, cache, now, ncalls, last>>

\* Bounds of the model.
MaxCalls == 3
MaxNow == 1500
TickMs == 500

VersionLists == {<<>>, <<"6.4.4">>, <<"6.0.0", "6.5.0">>}
Responses == {Failure(k) : k \in FailureKinds} \cup {Success(vs) : vs \in VersionLists}
ExpirySeconds == {1}

Configs ==
   [nugetCheckEnabled : BOOLEAN, nugetApiEnabled : BOOLEAN, nugetCacheEnabled : BOOLEAN,
    nugetCacheExpiry : ExpirySeconds, nugetIgnoredPackages : IgnoreLists]

EmptyCache == [k \in {} |-> Null]
NoResponse == [kind |-> "none"]
NoOperation == [op |-> "none"]

Init ==
   /\ config \in Configs
   /\ cache = EmptyCache
   /\ now = 0
   /\ ncalls = 0
   /\ last = NoOperation

\* One call of checkCompatibility, run to completion.
CheckCompatibility(packageName, packageVersion, targetFramework, response) ==
   /\ ncalls < MaxCalls
   /\ \E o \in {checkCompatibility(config, cache, now, packageName, packageVersion,
                                    targetFramework, response)} :
          /\ cache' = o.cache
          /\ last' = [op |-> "checkCompatibility",
                      packageName |-> packageName, packageVersion |-> packageVersion,
                      targetFramework |-> targetFramework,
                      response |-> IF o.requests > 0 THEN response ELSE NoResponse,
                      issue |-> o.issue, requests |-> o.requests,
                      local |-> o.local, read |-> o.read]
   /\ ncalls' = ncalls + 1
   /\ UNCHANGED <<config, now>>

clearCache ==
   /\ ncalls < MaxCalls
   /\ cache' = EmptyCache
   /\ last' = [op |-> "clearCache"]
   /\ ncalls' = ncalls + 1
   /\ UNCHANGED <<config, now>>

\* Time passes.
Tick ==
   /\ now + TickMs <= MaxNow
   /\ now' = now + TickMs
   /\ UNCHANGED <<config, cache, ncalls, last>>

Next ==
   \/ \E n \in PackageNames, v \in PackageVersions, f \in TargetFrameworks, r \in Responses :
         CheckCompatibility(n, v, f, r)
   \/ clearCache
   \/ Tick

Spec == Init /\ [][Next]_vars

(***************************************************************************)
(* Properties of checkCompatibility (specification Spec).                  *)
(***************************************************************************)
IsCheck(op) == op.op = "checkCompatibility"

\* This step is a call of checkCompatibility; last' describes it.
CallStep == ncalls' = ncalls + 1 /\ IsCheck(last')

KeyOf(op) == CacheKey(op.packageName, op.packageVersion, op.targetFramework)

SameArguments(a, b) ==
   /\ a.packageName = b.packageName
   /\ a.packageVersion = b.packageVersion
   /\ a.targetFramework = b.targetFramework

\* C1: with caching enabled and no expiry of the key's entry in between, a
\* call of checkCompatibility that directly follows a call with the same
\* arguments returns the same verdict and issues no remote request, whatever
\* the verdict (the compatible verdict included).
C1_RepeatedCallIsCached ==
   [][(/\ CallStep
       /\ IsCheck(last)
       /\ SameArguments(last, last')
       /\ config.nugetCacheEnabled
       /\ (KeyOf(last) \in DOMAIN cache => ~Expired(config, cache[KeyOf(last)], now)))
      => (last'.issue = last.issue /\ last'.requests = 0)]_vars

\* C2: when the remote lookup is made and succeeds, the call returns the
\* remote determination (compatible included) and checkCompatibilityLocal is
\* not consulted.
C2_RemoteSuccessIsFinal ==
   (IsCheck(last) /\ last.requests > 0 /\ last.response.kind = "ok")
      => /\ last.issue = checkCompatibilityViaAPI(last.packageName, last.packageVersion,
                                                  last.targetFramework, last.response)
         /\ ~last.local

\* The call reads the cache: checks are on, the package is not ignored and
\* caching is on.
ReadsCache(packageName) ==
   /\ config.nugetCheckEnabled
   /\ ~isPackageIgnored(config, packageName)
   /\ config.nugetCacheEnabled

\* C3: a read of an entry with now - timestamp > expirySeconds*1000 is a
\* miss, the entry is removed and the verdict is resolved again (remotely
\* when remote lookups are on, by the local rules otherwise); a read with
\* now - timestamp <= expirySeconds*1000 returns the entry's value without a
\* remote request or the local rules and leaves the cache alone.  An expired
\* entry leaves the cache only by a read of its own key or by clearCache.
C3_LazyExpiry ==
   [][/\ (CallStep /\ ReadsCache(last'.packageName) /\ KeyOf(last') \in DOMAIN cache)
         => IF now - cache[KeyOf(last')].timestamp > config.nugetCacheExpiry * 1000
            THEN /\ last'.read = "expired"
                 /\ (KeyOf(last') \in DOMAIN cache' => cache'[KeyOf(last')].timestamp = now)
                 /\ (config.nugetApiEnabled => last'.requests = 1)
                 /\ (~config.nugetApiEnabled => last'.local)
            ELSE /\ last'.issue = cache[KeyOf(last')].value
                 /\ last'.requests = 0
                 /\ ~last'.local
                 /\ cache' = cache
      /\ \A k \in DOMAIN cache :
            (/\ now - cache[k].timestamp > config.nugetCacheExpiry * 1000
             /\ (k \notin DOMAIN cache' \/ cache'[k] # cache[k]))
            => \/ last'.op = "clearCache" /\ ncalls' = ncalls + 1
               \/ CallStep /\ KeyOf(last') = k /\ last'.read = "expired"]_vars

\* An expired entry has been read: the call went to the remote source again
\* and stored a fresh entry.
C3_Witness ==
   /\ IsCheck(last)
   /\ last.read = "expired"
   /\ last.requests = 1
   /\ KeyOf(last) \in DOMAIN cache
   /\ cache[KeyOf(last)].timestamp = now
   /\ now > config.nugetCacheExpiry * 1000

\* C4: with checking disabled, or with a package name that matches an ignore
\* pattern (exactly, or by a wildcard pattern compared case-insensitively),
\* checkCompatibility returns compatible, issues no remote request and leaves
\* the cache unchanged, also for a package the catalog would flag.
C4_DisabledOrIgnored ==
   [][(CallStep /\ (~config.nugetCheckEnabled \/ isPackageIgnored(config, last'.packageName))
         => (last'.issue = Null /\ last'.requests = 0 /\ cache' = cache))
      /\ (CallStep /\ last'.packageName = "EntityFramework"
                   /\ config.nugetIgnoredPackages = <<"entity*">>
            => (last'.issue = Null /\ last'.requests = 0 /\ cache' = cache))]_vars

\* EntityFramework, which the catalog flags on net8.0, is ignored through the
\* pattern entity* and reported compatible while checking is on.
C4_Witness ==
   /\ IsCheck(last)
   /\ config.nugetCheckEnabled
   /\ config.nugetIgnoredPackages = <<"entity*">>
   /\ last.packageName = "EntityFramework"
   /\ checkCompatibilityLocal(last.packageName, last.packageVersion,
                              last.targetFramework).issueType = "incompatible"
   /\ last.issue = Null

\* C5: when the remote request of a call fails (transport error, timeout,
\* status other than 200, unparseable body) the call still returns a verdict,
\* has issued exactly one request, and the verdict is the one the same call
\* returns with remote lookups disabled.
C5_RemoteFailureFallsBack ==
   [][(CallStep /\ last'.response.kind \in FailureKinds)
      => /\ last'.requests = 1
         /\ last'.issue # UndefinedIssue
         /\ last'.issue =
               checkCompatibility([config EXCEPT !.nugetApiEnabled = FALSE], cache, now,
                                  last'.packageName, last'.packageVersion,
                                  last'.targetFramework, last'.response).issue]_vars

\* A request timed out and the call reported what the local rules say.
C5_Witness ==
   /\ IsCheck(last)
   /\ last.response.kind = "timeout"
   /\ last.requests = 1
   /\ last.issue # Null
   /\ last.issue.issueType = "incompatible"

\* C7: with remote lookups disabled, a checked package whose catalog rule
\* lists supportedFrameworks none of which matches the target gets an
\* incompatible issue whose recommendation enumerates that list; for
\* EntityFramework 6.4.4 on net8.0 the list is net40 through net48.
C7_LocalIncompatible ==
   (/\ IsCheck(last)
    /\ config.nugetCheckEnabled
    /\ ~config.nugetApiEnabled
    /\ ~isPackageIgnored(config, last.packageName))
   => /\ LET rule == findRuleForPackage(last.packageName) IN
         (/\ rule # Null
          /\ Has(rule, "supportedFrameworks")
          /\ \A i \in 1..Len(rule.supportedFrameworks) :
                ~matchesFramework(last.targetFramework, rule.supportedFrameworks[i]))
         => /\ last.issue # Null
            /\ last.issue.issueType = "incompatible"
            /\ last.issue.recommendation =
                  "This package requires one of: " \o join(rule.supportedFrameworks, ", ")
      /\ (/\ last.packageName = "EntityFramework"
          /\ last.packageVersion = "6.4.4"
          /\ last.targetFramework = "net8.0")
         => /\ last.issue # Null
            /\ last.issue.issueType = "incompatible"
            /\ last.issue.recommendation =
                  "This package requires one of: net40, net45, net451, net452, net46, "
                  \o "net461, net462, net47, net471, net472, net48"

\* checkCompatibility(EntityFramework, 6.4.4, net8.0) has run on the local
\* rules alone and found the package incompatible.
C7_Witness ==
   /\ IsCheck(last)
   /\ ~config.nugetApiEnabled
   /\ last.packageName = "EntityFramework"
   /\ last.packageVersion = "6.4.4"
   /\ last.targetFramework = "net8.0"
   /\ last.local
   /\ last.issue # Null
   /\ last.issue.issueType = "incompatible"

(***************************************************************************)
(* compareVersions as a function of two version strings (SpecVersions).    *)
(***************************************************************************)
MaxSegments == 3
Segments == {"0", "1", "2", "10"}

VersionStrings ==
   {join(s, ".") : s \in UNION {[1..n -> Segments] : n \in 1..MaxSegments}}

DefaultConfig ==
   [nugetCheckEnabled |-> TRUE, nugetApiEnabled |-> TRUE, nugetCacheEnabled |-> TRUE,
    nugetCacheExpiry |-> 3600, nugetIgnoredPackages |-> <<>>]

InitVersions ==
   /\ config = DefaultConfig
   /\ cache = EmptyCache
   /\ now = 0
   /\ ncalls = 0
   /\ last \in {[op |-> "versions", version1 |-> a, version2 |-> b] :
                  a \in VersionStrings, b \in VersionStrings}

CompareVersions ==
   /\ last.op = "versions"
   /\ last' = [op |-> "compareVersions", version1 |-> last.version1,
               version2 |-> last.version2,
               result |-> compareVersions(last.version1, last.version2)]
   /\ UNCHANGED <<config, cache, now, ncalls>>

NextVersions == CompareVersions

SpecVersions == InitVersions /\ [][NextVersions]_vars

\* The integer segments of a dotted numeric string, padded with zeros to n.
SegmentTuple(v, n) ==
   [i \in 1..n |-> IF i <= Len(split(v, ".")) THEN DecimalValue(split(v, ".")[i]) ELSE 0]

\* Left-to-right order of two tuples of the same length.
TupleOrder(p, q) ==
   IF p = q THEN 0
   ELSE LET k == CHOOSE k \in 1..Len(p) : p[k] # q[k] /\ \A j \in 1..(k - 1) : p[j] = q[j]
        IN  IF p[k] < q[k] THEN -1 ELSE 1

\* C10: compareVersions on dotted numeric strings is the left-to-right
\* comparison of the integer segment tuples padded with zeros to equal
\* length, with values -1, 0 and 1; it is numeric (2.0.0 is below 10.0.0),
\* takes 1.0 and 1.0.0 as equal, and is antisymmetric.
C10_CompareVersions ==
   last.op = "compareVersions"
   => LET a == last.version1
          b == last.version2
          n == Max(Len(split(a, ".")), Len(split(b, ".")))
      IN  /\ last.result \in {-1, 0, 1}
          /\ last.result = TupleOrder(SegmentTuple(a, n), SegmentTuple(b, n))
          /\ compareVersions(b, a) = 0 - last.result
          /\ (a = "2.0.0" /\ b = "10.0.0" => last.result = -1)
          /\ (a = "1.0" /\ b = "1.0.0" => last.result = 0)

\* compareVersions("2.0.0", "10.0.0") has been computed and is -1.
C10_Witness ==
   /\ last.op = "compareVersions"
   /\ last.version1 = "2.0.0"
   /\ last.version2 = "10.0.0"
   /\ last.result = -1

(***************************************************************************)
(* checkCompatibilityLocal as a function of the rule found (SpecLocal).    *)
(* No rule of the shipped catalog has deprecatedVersions, so the order of  *)
(* the three tests is exercised on rules of type PackageCompatibilityRule  *)
(* assembled from the optional fields of that type.                        *)
(***************************************************************************)
NoFields == [x \in {} |-> Null]

SupportedParts ==
   {NoFields, [supportedFrameworks |-> <<"net6.0">>],
    [supportedFrameworks |-> <<"net8.0", "net48">>]}

DeprecatedParts ==
   {NoFields, [deprecatedVersions |-> <<"1.0.0">>],
    [deprecatedVersions |-> <<"1.0.0", "3.0.0">>]}

VersionRuleParts ==
   {NoFields, [versionRules |-> [minVersion |-> "2.0.0"]],
    [versionRules |-> [maxVersion |-> "2.0.0"]],
    [versionRules |-> [frameworkVersions |-> ("net8.0" :> [min |-> "2.0.0"])]]}

BoundParts == {NoFields, [minFramework |-> "net6.0"], [maxFramework |-> "net48"]}

SampleName == "Sample.Package"

RuleSamples ==
   {[packageName |-> SampleName] @@ s @@ d @@ v @@ b :
      s \in SupportedParts, d \in DeprecatedParts, v \in VersionRuleParts, b \in BoundParts}

SampleVersions == {Undefined, "1.0.0", "2.0.0", "3.0.0"}
SampleFrameworks == {"net8.0", "net5.0", "net48"}

InitLocal ==
   /\ config = DefaultConfig
   /\ cache = EmptyCache
   /\ now = 0
   /\ ncalls = 0
   /\ last \in {[op |-> "rule", rule |-> r, packageVersion |-> v, targetFramework |-> f] :
                  r \in RuleSamples, v \in SampleVersions, f \in SampleFrameworks}

CheckCompatibilityLocal ==
   /\ last.op = "rule"
   /\ last' = [op |-> "checkCompatibilityLocal", rule |-> last.rule,
               packageVersion |-> last.packageVersion,
               targetFramework |-> last.targetFramework,
               issue |-> checkRule(last.rule, SampleName, last.packageVersion,
                                   last.targetFramework)]
   /\ UNCHANGED <<config, cache, now, ncalls>>

NextLocal == CheckCompatibilityLocal

SpecLocal == InitLocal /\ [][NextLocal]_vars

DeprecatedApplies(op) ==
   /\ Truthy(op.packageVersion)
   /\ Has(op.rule, "deprecatedVersions")
   /\ includes(op.rule.deprecatedVersions, op.packageVersion)

FrameworkOutOfRange(op) == ~isFrameworkCompatible(op.targetFramework, op.rule)

VersionOutOfBounds(op) ==
   /\ Truthy(op.packageVersion)
   /\ checkVersionCompatibility(SampleName, op.packageVersion, op.targetFramework,
                                op.rule) # Null

\* C6: under the local rules the first applicable issue wins in the order
\* deprecated, incompatible, version_mismatch; a deprecated version on a
\* framework outside the supported range is reported deprecated.
C6_IssuePriority ==
   last.op = "checkCompatibilityLocal"
   => /\ DeprecatedApplies(last) => last.issue.issueType = "deprecated"
      /\ (~DeprecatedApplies(last) /\ FrameworkOutOfRange(last))
            => last.issue.issueType = "incompatible"
      /\ (~DeprecatedApplies(last) /\ ~FrameworkOutOfRange(last) /\ VersionOutOfBounds(last))
            => last.issue.issueType = "version_mismatch"
      /\ (~DeprecatedApplies(last) /\ ~FrameworkOutOfRange(last) /\ ~VersionOutOfBounds(last))
            => last.issue = Null

\* A deprecated version on an unsupported framework was reported deprecated.
C6_Witness ==
   /\ last.op = "checkCompatibilityLocal"
   /\ DeprecatedApplies(last)
   /\ FrameworkOutOfRange(last)
   /\ VersionOutOfBounds(last)
   /\ last.issue.issueType = "deprecated"

(***************************************************************************)
(* The operations over a whole project.  During one such operation the     *)
(* registry is taken to answer every request for the same package alike:   *)
(* `index` gives, per package, the answer to the request for index.json,   *)
(* and `nuspec` tells whether the requests for a .nuspec return 200.       *)
(***************************************************************************)
Version(pkgRef) == IF Has(pkgRef, "Version") THEN pkgRef.Version ELSE Undefined

NotIncompatible(issue) == issue = Null \/ issue.issueType # "incompatible"

\* fetchPackageMetadata(packageName, timeout): the request for index.json.
fetchPackageMetadata(packageName, response) ==
   IF response.kind # "ok" THEN Null
   ELSE [packageId |-> packageName,
         version |-> IF Len(response.versions) > 0
                     THEN response.versions[Len(response.versions)] ELSE "",
         versions |-> response.versions]

\* fetchPackageMetadata(packageName, version, timeout): the request for the
\* .nuspec, of which no dependency is extracted.
fetchPackageMetadataOfVersion(packageName, version, ok) ==
   IF ~ok THEN Null
   ELSE [packageId |-> packageName, version |-> version, versions |-> <<version>>,
         dependencies |-> <<>>]

frameworkVerdict ==
   [n \in KnownNames, f \in KnownFrameworks |->
      LET rule == findRuleForPackage(n) IN
      IF rule = Null THEN TRUE ELSE isFrameworkCompatible(f, rule)]

isVersionCompatibleWithFramework(packageName, version, targetFramework) ==
   frameworkVerdict[packageName, targetFramework]

\* suggestVersion returning the first compatible version, or the first of
\* the list, in place of the last.
suggestVersionFirst(cfg, packageName, currentVersion, targetFramework, response) ==
   IF ~cfg.nugetApiEnabled THEN Undefined
   ELSE IF response.kind # "ok" THEN Undefined
   ELSE IF Len(response.versions) = 0 THEN Undefined
   ELSE response.versions[1]

suggestVersion(cfg, packageName, currentVersion, targetFramework, response) ==
   IF ~cfg.nugetApiEnabled THEN Undefined
   ELSE LET packageInfo == fetchPackageMetadata(packageName, response) IN
        IF packageInfo = Null THEN Undefined
        ELSE IF Len(packageInfo.versions) = 0 THEN Undefined
        ELSE LET compatibleVersions ==
                    SelectSeq(packageInfo.versions,
                              LAMBDA v : isVersionCompatibleWithFramework(packageName, v,
                                                                          targetFramework))
             IN  IF Len(compatibleVersions) > 0
                 THEN compatibleVersions[Len(compatibleVersions)]
                 ELSE packageInfo.versions[Len(packageInfo.versions)]

\* Lines 1599-1621: the alternative, with its latest version when obtainable.
AlternativeOffer(cfg, alternative, response) ==
   LET altInfo == fetchPackageMetadata(alternative.name, response) IN
   IF cfg.nugetApiEnabled /\ altInfo # Null /\ Len(altInfo.versions) > 0
   THEN [name |-> alternative.name, version |-> altInfo.versions[Len(altInfo.versions)],
         reason |-> alternative.reason]
   ELSE [name |-> alternative.name, reason |-> alternative.reason]

\* The result has the field alternativePackage unless the method returns
\* undefined, and the cache as the method leaves it.
suggestAlternative(cfg, c, time, registry, packageName, targetFramework) ==
   IF packageName \notin DOMAIN alternatives THEN [cache |-> c]
   ELSE LET alternative == alternatives[packageName]
            o == checkCompatibility(cfg, c, time, alternative.name, Undefined, targetFramework,
                                    registry.index[alternative.name])
        IN  IF NotIncompatible(o.issue)
            THEN [cache |-> o.cache,
                  alternativePackage |->
                     AlternativeOffer(cfg, alternative, registry.index[alternative.name])]
            ELSE [cache |-> o.cache]

RECURSIVE DigitsOrDotsFrom(_, _)
DigitsOrDotsFrom(s, i) ==
   IF i > Len(s) THEN ""
   ELSE IF IsDigit(Char(s, i)) \/ Char(s, i) = "." THEN Char(s, i) \o DigitsOrDotsFrom(s, i + 1)
   ELSE ""

RECURSIVE FirstDigitOrDot(_, _)
FirstDigitOrDot(s, i) ==
   IF i > Len(s) THEN 0
   ELSE IF IsDigit(Char(s, i)) \/ Char(s, i) = "." THEN i
   ELSE FirstDigitOrDot(s, i + 1)

extractVersionFromRange(range) ==
   IF ~Truthy(range) THEN Undefined
   ELSE IF FirstDigitOrDot(range, 1) = 0 THEN Undefined
   ELSE DigitsOrDotsFrom(range, FirstDigitOrDot(range, 1))

\* Lines 1646-1660: one dependency.
TransitiveStep(cfg, time, registry, dependency, targetFramework, acc) ==
   The({IF o.issue # Null
        THEN [cache |-> o.cache,
              transitiveIssues |->
                 Append(acc.transitiveIssues,
                        [packageName |-> dependency.id,
                         version |-> extractVersionFromRange(dependency.range),
                         message |-> o.issue.message])]
        ELSE [cache |-> o.cache, transitiveIssues |-> acc.transitiveIssues] :
        o \in {checkCompatibility(cfg, acc.cache, time, dependency.id,
                                  extractVersionFromRange(dependency.range), targetFramework,
                                  registry.index[dependency.id])}})

\* Lines 1645-1661: the loop over the dependencies of the metadata.
RECURSIVE TransitiveScan(_, _, _, _, _, _, _)
TransitiveScan(cfg, time, registry, dependencies, targetFramework, i, acc) ==
   IF i > Len(dependencies) THEN acc
   ELSE The({TransitiveScan(cfg, time, registry, dependencies, targetFramework, i + 1, a) :
             a \in {TransitiveStep(cfg, time, registry, dependencies[i], targetFramework, acc)}})

checkTransitiveDependencies(cfg, c, time, registry, packageName, packageVersion, targetFramework) ==
   LET packageMetadata == fetchPackageMetadataOfVersion(packageName, packageVersion,
                                                        registry.nuspec)
   IN  IF packageMetadata = Null THEN [cache |-> c, transitiveIssues |-> <<>>]
       ELSE TransitiveScan(cfg, time, registry, packageMetadata.dependencies, targetFramework, 1,
                           [cache |-> c, transitiveIssues |-> <<>>])

\* Lines 1512-1527: the alternative and the transitive issues, in that order.
enhanceIssue(cfg, c, time, registry, baseIssue, packageName, packageVersion, targetFramework) ==
   The({The({[cache |-> deps.cache,
              issue |-> baseIssue
                        @@ [suggestedVersion |-> suggestVersion(cfg, packageName, packageVersion,
                                                                targetFramework,
                                                                registry.index[packageName]),
                            transitiveIssues |-> deps.transitiveIssues]
                        @@ (IF Has(alt, "alternativePackage")
                            THEN [alternativePackage |-> alt.alternativePackage]
                            ELSE NoFields)] :
             deps \in {IF cfg.nugetApiEnabled /\ Truthy(packageVersion)
                       THEN checkTransitiveDependencies(cfg, alt.cache, time, registry,
                                                        packageName, packageVersion,
                                                        targetFramework)
                       ELSE [cache |-> alt.cache, transitiveIssues |-> <<>>]}}) :
        alt \in {IF baseIssue.issueType = "incompatible"
                 THEN suggestAlternative(cfg, c, time, registry, packageName, targetFramework)
                 ELSE [cache |-> c]}})

\* EnhancedStep with the issue put in front of the list instead of behind it.
EnhancedStepInFront(cfg, time, registry, pkgRef, targetFramework, acc) ==
   The({IF o.issue = Null THEN [cache |-> o.cache, issues |-> acc.issues]
        ELSE The({[cache |-> e.cache, issues |-> <<e.issue>> \o acc.issues] :
                  e \in {enhanceIssue(cfg, o.cache, time, registry, o.issue, pkgRef.Include,
                                      Version(pkgRef), targetFramework)}}) :
        o \in {checkCompatibility(cfg, acc.cache, time, pkgRef.Include, Version(pkgRef),
                                  targetFramework, registry.index[pkgRef.Include])}})

\* Lines 1472-1486: one package reference.
EnhancedStep(cfg, time, registry, pkgRef, targetFramework, acc) ==
   The({IF o.issue = Null THEN [cache |-> o.cache, issues |-> acc.issues]
        ELSE The({[cache |-> e.cache, issues |-> Append(acc.issues, e.issue)] :
                  e \in {enhanceIssue(cfg, o.cache, time, registry, o.issue, pkgRef.Include,
                                      Version(pkgRef), targetFramework)}}) :
        o \in {checkCompatibility(cfg, acc.cache, time, pkgRef.Include, Version(pkgRef),
                                  targetFramework, registry.index[pkgRef.Include])}})

\* Lines 1471-1487: the loop over the package references.
RECURSIVE EnhancedScan(_, _, _, _, _, _, _)
EnhancedScan(cfg, time, registry, packageReferences, targetFramework, i, acc) ==
   IF i > Len(packageReferences) THEN acc
   ELSE The({EnhancedScan(cfg, time, registry, packageReferences, targetFramework, i + 1, a) :
             a \in {EnhancedStep(cfg, time, registry, packageReferences[i], targetFramework,
                                 acc)}})

checkProjectCompatibilityEnhanced(cfg, c, time, registry, packageReferences, targetFramework) ==
   EnhancedScan(cfg, time, registry, packageReferences, targetFramework, 1,
                [cache |-> c, issues |-> <<>>])

(***************************************************************************)
(* checkProjectCompatibilityEnhanced on a resolver just constructed        *)
(* (SpecEnhanced).                                                         *)
(***************************************************************************)
MaxPackages == 2

PackageReferences ==
   {[Include |-> "EntityFramework", Version |-> "6.4.4"], [Include |-> "Newtonsoft.Json"]}

ReferenceLists(n) == UNION {[1..k -> PackageReferences] : k \in 0..n}

IndexResponses == {Failure("timeout"), Success(<<"6.4.4">>), Success(<<"6.0.0", "6.5.0">>)}

Registries == [index : [ListedNames -> IndexResponses], nuspec : BOOLEAN]

InitEnhanced ==
   /\ config \in Configs
   /\ cache = EmptyCache
   /\ now = 0
   /\ ncalls = 0
   /\ last \in {[op |-> "project", packageReferences |-> refs, targetFramework |-> f,
                 registry |-> r] :
                  refs \in ReferenceLists(MaxPackages), f \in TargetFrameworks, r \in Registries}

CheckProjectCompatibilityEnhanced ==
   /\ last.op = "project"
   /\ \E o \in {checkProjectCompatibilityEnhanced(config, cache, now, last.registry,
                                                  last.packageReferences, last.targetFramework)} :
         /\ cache' = o.cache
         /\ last' = [op |-> "checkProjectCompatibilityEnhanced",
                     packageReferences |-> last.packageReferences,
                     targetFramework |-> last.targetFramework,
                     registry |-> last.registry,
                     issues |-> o.issues]
   /\ ncalls' = ncalls + 1
   /\ UNCHANGED <<config, now>>

NextEnhanced == CheckProjectCompatibilityEnhanced

SpecEnhanced == InitEnhanced /\ [][NextEnhanced]_vars

\* What checkCompatibility answers for the alternative of a package, without
\* a version, on the target framework of the operation.
AlternativeVerdict(packageName) ==
   checkCompatibility(config, EmptyCache, now, alternatives[packageName].name, Undefined,
                      last.targetFramework,
                      last.registry.index[alternatives[packageName].name]).issue

\* C8: every issue checkProjectCompatibilityEnhanced returns for a package
\* of the legacy-to-modern mapping whose alternative is not incompatible
\* with the target framework carries that alternative, and no issue carries
\* an alternative that is incompatible; the issue for EntityFramework 6.4.4
\* on net8.0 names Microsoft.EntityFrameworkCore.
C8_AlternativeAttached ==
   last.op = "checkProjectCompatibilityEnhanced"
   => \A i \in 1..Len(last.issues) :
         LET issue == last.issues[i] IN
         /\ (issue.packageName \in DOMAIN alternatives
               /\ NotIncompatible(AlternativeVerdict(issue.packageName)))
            => /\ Has(issue, "alternativePackage")
               /\ issue.alternativePackage.name = alternatives[issue.packageName].name
         /\ Has(issue, "alternativePackage")
            => NotIncompatible(AlternativeVerdict(issue.packageName))
         /\ (issue.packageName = "EntityFramework" /\ issue.packageVersion = "6.4.4"
               /\ last.targetFramework = "net8.0")
            => /\ Has(issue, "alternativePackage")
               /\ issue.alternativePackage.name = "Microsoft.EntityFrameworkCore"

(***************************************************************************)
(* UpgradeAdvisor: suggestFrameworkUpgrade.                                *)
(***************************************************************************)
\* JavaScript null where a framework moniker is expected.
NullFramework == "<null>"

\* The list as it is, in place of its reversal.
KeepOrder(s) == s

Reverse(s) == [i \in 1..Len(s) |-> s[Len(s) + 1 - i]]

\* Lines 1853-1861: one reference against one of the newer frameworks.
SupportStep(cfg, time, index, pkgRef, upgradeFramework, acc) ==
   The({IF NotIncompatible(o.issue)
        THEN [cache |-> o.cache,
              frameworkSupport |->
                 [acc.frameworkSupport EXCEPT ![upgradeFramework] = Append(@, pkgRef.Include)]]
        ELSE [cache |-> o.cache, frameworkSupport |-> acc.frameworkSupport] :
        o \in {checkCompatibility(cfg, acc.cache, time, pkgRef.Include, Version(pkgRef),
                                  upgradeFramework, index[pkgRef.Include])}})

\* Lines 1850-1863: which references support which of the newer frameworks.
RECURSIVE SupportScan(_, _, _, _, _, _, _, _)
SupportScan(cfg, time, index, packageReferences, possibleUpgrades, i, j, acc) ==
   IF i > Len(packageReferences) THEN acc
   ELSE IF j > Len(possibleUpgrades)
   THEN SupportScan(cfg, time, index, packageReferences, possibleUpgrades, i + 1, 1, acc)
   ELSE The({SupportScan(cfg, time, index, packageReferences, possibleUpgrades, i, j + 1, a) :
             a \in {SupportStep(cfg, time, index, packageReferences[i], possibleUpgrades[j],
                                acc)}})

\* The scan with compatibleCount >= maxCompatibleCount in place of >, which
\* keeps the framework met last among those with the same count.
RECURSIVE BestScanLastWins(_, _, _, _, _, _)
BestScanLastWins(reversedUpgrades, k, frameworkSupport, total, bestFramework, maxCompatibleCount) ==
   IF k > Len(reversedUpgrades) THEN bestFramework
   ELSE LET compatibleCount == Len(frameworkSupport[reversedUpgrades[k]]) IN
        IF compatibleCount = total THEN reversedUpgrades[k]
        ELSE IF compatibleCount >= maxCompatibleCount /\ compatibleCount > 0
        THEN BestScanLastWins(reversedUpgrades, k + 1, frameworkSupport, total,
                              reversedUpgrades[k], compatibleCount)
        ELSE BestScanLastWins(reversedUpgrades, k + 1, frameworkSupport, total,
                              bestFramework, maxCompatibleCount)

\* Lines 1870-1881: the scan from the highest framework to the lowest.
RECURSIVE BestScan(_, _, _, _, _, _)
BestScan(reversedUpgrades, k, frameworkSupport, total, bestFramework, maxCompatibleCount) ==
   IF k > Len(reversedUpgrades) THEN bestFramework
   ELSE LET compatibleCount == Len(frameworkSupport[reversedUpgrades[k]]) IN
        IF compatibleCount = total THEN reversedUpgrades[k]
        ELSE IF compatibleCount > maxCompatibleCount
        THEN BestScan(reversedUpgrades, k + 1, frameworkSupport, total,
                      reversedUpgrades[k], compatibleCount)
        ELSE BestScan(reversedUpgrades, k + 1, frameworkSupport, total,
                      bestFramework, maxCompatibleCount)

\* compatiblePercentage > 80 in place of >= 80.
MeetsThresholdStrictly(compatible, total) == total # 0 /\ compatible * 100 > 80 * total

\* (compatible / total) * 100 >= 80 in double arithmetic, which for totals
\* below 2000 is compatible * 100 >= 80 * total; 0 / 0 is NaN, and NaN >= 80
\* is false.
MeetsThreshold(compatible, total) == total # 0 /\ compatible * 100 >= 80 * total

\* (compatible / total) * 100 === 100.
IsFullSupport(compatible, total) == total # 0 /\ compatible = total

\* Lines 1887-1905: the suggestion for the framework selected.
Suggestion(bestFramework, compatiblePackages, total) ==
   IF bestFramework = NullFramework THEN Null
   ELSE IF MeetsThreshold(Len(compatiblePackages), total)
   THEN [suggestedFramework |-> bestFramework,
         reason |-> IF IsFullSupport(Len(compatiblePackages), total)
                    THEN "All packages support " \o bestFramework
                    ELSE ToString(Len(compatiblePackages)) \o " of " \o ToString(total)
                         \o " packages support " \o bestFramework,
         packagesSupporting |-> compatiblePackages]
   ELSE Null

\* The result records the value returned, the cache after the call and the
\* framework the scan selected.
suggestFrameworkUpgrade(cfg, c, time, index, targetFramework, packageReferences) ==
   IF toLowerCase(targetFramework) \notin DOMAIN upgradePaths
   THEN [result |-> Null, cache |-> c, bestFramework |-> NullFramework]
   ELSE The({The({[result |-> Suggestion(bestFramework,
                                         IF bestFramework = NullFramework THEN <<>>
                                         ELSE scan.frameworkSupport[bestFramework],
                                         Len(packageReferences)),
                   cache |-> scan.cache,
                   bestFramework |-> bestFramework] :
                  bestFramework \in {BestScan(Reverse(possibleUpgrades), 1,
                                              scan.frameworkSupport, Len(packageReferences),
                                              NullFramework, 0)}}) :
             possibleUpgrades \in {upgradePaths[toLowerCase(targetFramework)]},
             scan \in {SupportScan(cfg, time, index, packageReferences,
                                   upgradePaths[toLowerCase(targetFramework)], 1, 1,
                                   [cache |-> c,
                                    frameworkSupport |->
                                       [f \in Range(upgradePaths[toLowerCase(targetFramework)])
                                          |-> <<>>]])}})

(***************************************************************************)
(* suggestFrameworkUpgrade on a resolver just constructed (SpecUpgrade).   *)
(***************************************************************************)
MaxRefs == 5

CurrentFrameworks == {"net6.0", "NET7.0", "netcoreapp3.1", "net48"}

Indexes == [PackageNames -> IndexResponses]

InitUpgrade ==
   /\ config \in Configs
   /\ cache = EmptyCache
   /\ now = 0
   /\ ncalls = 0
   /\ last \in {[op |-> "advise", packageReferences |-> refs, targetFramework |-> f,
                 index |-> r] :
                  refs \in ReferenceLists(MaxRefs), f \in CurrentFrameworks, r \in Indexes}

SuggestFrameworkUpgrade ==
   /\ last.op = "advise"
   /\ \E o \in {suggestFrameworkUpgrade(config, cache, now, last.index, last.targetFramework,
                                        last.packageReferences)} :
         /\ cache' = o.cache
         /\ last' = [op |-> "suggestFrameworkUpgrade",
                     packageReferences |-> last.packageReferences,
                     targetFramework |-> last.targetFramework,
                     index |-> last.index,
                     bestFramework |-> o.bestFramework,
                     result |-> o.result]
   /\ ncalls' = ncalls + 1
   /\ UNCHANGED <<config, now>>

NextUpgrade == SuggestFrameworkUpgrade

SpecUpgrade == InitUpgrade /\ [][NextUpgrade]_vars

\* The number of references of the operation that checkCompatibility does
\* not find incompatible with the framework selected.
Supporting ==
   Cardinality({i \in 1..Len(last.packageReferences) :
      NotIncompatible(
         checkCompatibility(config, EmptyCache, now, last.packageReferences[i].Include,
                            Version(last.packageReferences[i]), last.bestFramework,
                            last.index[last.packageReferences[i].Include]).issue)})

Total == Len(last.packageReferences)

ReasonIsRight ==
   /\ last.result.suggestedFramework = last.bestFramework
   /\ Len(last.result.packagesSupporting) = Supporting
   /\ (Supporting = Total
         => last.result.reason = "All packages support " \o last.bestFramework)
   /\ (Supporting # Total
         => last.result.reason = ToString(Supporting) \o " of " \o ToString(Total)
                                 \o " packages support " \o last.bestFramework)

\* C9 as stated: suggestFrameworkUpgrade returns a suggestion if and only
\* if the selected candidate is supported by at least 80% of the references
\* (supporting*100 >= 80*total).
C9_ThresholdAsStated ==
   (last.op = "suggestFrameworkUpgrade" /\ last.bestFramework # NullFramework)
   => (last.result # Null <=> Supporting * 100 >= 80 * Total)

\* C9 (amended): for a non-empty list of references suggestFrameworkUpgrade
\* returns a suggestion if and only if a candidate was selected and it is
\* supported by at least 80% of the references; 2 of 3 and 3 of 4 give no
\* suggestion, 4 of 5 gives one; the reason says "All packages support"
\* exactly when all references support it and "N of M packages support"
\* otherwise.  For an empty list there is no suggestion.
C9_Threshold ==
   last.op = "suggestFrameworkUpgrade"
   => /\ Total = 0 => last.result = Null
      /\ last.bestFramework = NullFramework => last.result = Null
      /\ (Total > 0 /\ last.bestFramework # NullFramework)
         => /\ last.result # Null <=> Supporting * 100 >= 80 * Total
            /\ (Supporting = 2 /\ Total = 3) => last.result = Null
            /\ (Supporting = 3 /\ Total = 4) => last.result = Null
            /\ (Supporting = 4 /\ Total = 5) => last.result # Null
            /\ last.result # Null => ReasonIsRight

\* Four of five references support the framework selected and it is suggested.
C9_Witness ==
   /\ last.op = "suggestFrameworkUpgrade"
   /\ last.bestFramework # NullFramework
   /\ Total = 5
   /\ Supporting = 4
   /\ last.result # Null
   /\ last.result.reason = "4 of 5 packages support " \o last.bestFramework

(***************************************************************************)
(* matchesFramework as a function of two monikers (SpecFrameworks).        *)
(***************************************************************************)
Monikers ==
   {"net6.0", "NET6.0", "net6.5", "net7.0", "net8.0", "net48", "net",
    "netcoreapp2.1", "netcoreapp3.0", "netcoreapp3.1", "netcoreapp4.1",
    "netstandard2.0", "netstandard2.1", "NetStandard2.0",
    "net4.8", "net4.7.2", "netframework4.8", "foo1.0", "foo1.5"}

InitFrameworks ==
   /\ config = DefaultConfig
   /\ cache = EmptyCache
   /\ now = 0
   /\ ncalls = 0
   /\ last \in {[op |-> "monikers", framework1 |-> a, framework2 |-> b] :
                  a \in Monikers, b \in Monikers}

MatchesFramework ==
   /\ last.op = "monikers"
   /\ last' = [op |-> "matchesFramework", framework1 |-> last.framework1,
               framework2 |-> last.framework2,
               result |-> matchesFramework(last.framework1, last.framework2)]
   /\ UNCHANGED <<config, cache, now, ncalls>>

NextFrameworks == MatchesFramework

SpecFrameworks == InitFrameworks /\ [][NextFrameworks]_vars

Families == {"net", "netcoreapp", "netframework", "netstandard"}

EqualIgnoringCase(a, b) == toLowerCase(a) = toLowerCase(b)

HasVersion(f) == Truthy(extractVersionNumber(f))

\* The versions of two monikers, as exact fractions, are less than 1 apart,
\* exactly 1 apart, or more.
ExactGap(a, b) ==
   LET x == parseFloat(extractVersionNumber(a))
       y == parseFloat(extractVersionNumber(b))
       d == Abs(x.num * y.den - y.num * x.den)
   IN  IF d < x.den * y.den THEN "below" ELSE IF d = x.den * y.den THEN "one" ELSE "above"

\* C11 as stated: matchesFramework(a, b) is true exactly when a and b are
\* equal ignoring case, or belong to the same family (net, netcoreapp,
\* netframework, netstandard) and their versions differ by less than 1.0.
C11_SameFamilyAsStated ==
   last.op = "matchesFramework"
   => (last.result <=>
         \/ EqualIgnoringCase(last.framework1, last.framework2)
         \/ /\ getFrameworkType(last.framework1) \in Families
            /\ getFrameworkType(last.framework1) = getFrameworkType(last.framework2)
            /\ HasVersion(last.framework1) /\ HasVersion(last.framework2)
            /\ ExactGap(last.framework1, last.framework2) = "below")

\* C11 (amended): monikers equal ignoring case match; monikers of different
\* families never match; two monikers of family net, or two of family
\* netcoreapp, match when their versions are less than 1.0 apart and do not
\* match when they are more than 1.0 apart or one has no version; two
\* different monikers of family netframework or netstandard never match.
C11_ModernFamilies ==
   last.op = "matchesFramework"
   => LET a == last.framework1
          b == last.framework2
      IN  /\ EqualIgnoringCase(a, b) => last.result
          /\ getFrameworkType(a) # getFrameworkType(b) => ~last.result
          /\ (~EqualIgnoringCase(a, b) /\ getFrameworkType(a) = getFrameworkType(b))
             => IF getFrameworkType(a) \in {"net", "netcoreapp"}
                THEN IF HasVersion(a) /\ HasVersion(b)
                     THEN /\ ExactGap(a, b) = "below" => last.result
                          /\ ExactGap(a, b) = "above" => ~last.result
                     ELSE ~last.result
                ELSE ~last.result
          /\ (a = "net6.0" /\ b = "net6.5" => last.result)
          /\ (a = "net6.0" /\ b = "net8.0" => ~last.result)
          /\ (a = "netstandard2.0" /\ b = "netstandard2.1" => ~last.result)

\* netstandard2.0 and netstandard2.1 were compared and do not match.
C11_Witness ==
   /\ last.op = "matchesFramework"
   /\ last.framework1 = "netstandard2.0"
   /\ last.framework2 = "netstandard2.1"
   /\ ~last.result

(***************************************************************************)
(* The two checks of a whole project, one awaited reference at a time      *)
(* (SpecProject).  Between two references time may pass, and the registry  *)
(* may answer the requests made for one reference differently from those   *)
(* made for another.                                                       *)
(***************************************************************************)
\* Lines 1451-1460: one package reference of checkProjectCompatibility.
ProjectStep(cfg, time, registry, pkgRef, targetFramework, acc) ==
   The({IF o.issue = Null THEN [cache |-> o.cache, issues |-> acc.issues]
        ELSE [cache |-> o.cache, issues |-> Append(acc.issues, o.issue)] :
        o \in {checkCompatibility(cfg, acc.cache, time, pkgRef.Include, Version(pkgRef),
                                  targetFramework, registry.index[pkgRef.Include])}})

MaxBatch == 2

BatchReferences ==
   PackageReferences \cup {[Include |-> "Newtonsoft.Json", Version |-> "6.4.4"]}

BatchLists(n) == UNION {[1..k -> BatchReferences] : k \in 0..n}

\* The registry as one reference sees it: `own` answers the requests for the
\* package itself, `other` those for any other package.
RegistryFor(packageName, own, other, nuspec) ==
   [index |-> [n \in ListedNames |-> IF n = packageName THEN own ELSE other],
    nuspec |-> nuspec]

InitProject ==
   /\ config \in Configs
   /\ cache = EmptyCache
   /\ now = 0
   /\ ncalls = 0
   /\ last = NoOperation

\* The call: checkProjectCompatibility or checkProjectCompatibilityEnhanced.
BeginProject(enhanced, packageReferences, targetFramework) ==
   /\ last.op = "none"
   /\ last' = [op |-> "awaiting", enhanced |-> enhanced,
               packageReferences |-> packageReferences,
               targetFramework |-> targetFramework,
               issues |-> <<>>, verdicts |-> <<>>, times |-> <<>>]
   /\ ncalls' = ncalls + 1
   /\ UNCHANGED <<config, cache, now>>

\* What one iteration leaves in `last`; `verdicts` keeps what
\* checkCompatibility returned for the reference and `times` when it was
\* awaited.
Awaited(a, verdict) ==
   [last EXCEPT !.issues = a.issues, !.verdicts = Append(@, verdict), !.times = Append(@, now)]

\* One iteration of the loop of checkProjectCompatibility.
AwaitReference(own) ==
   /\ last.op = "awaiting"
   /\ ~last.enhanced
   /\ Len(last.verdicts) < Len(last.packageReferences)
   /\ \E pkgRef \in {last.packageReferences[Len(last.verdicts) + 1]} :
      \E a \in {ProjectStep(config, now, RegistryFor(pkgRef.Include, own, own, TRUE), pkgRef,
                            last.targetFramework, [cache |-> cache, issues |-> last.issues])} :
      \E o \in {checkCompatibility(config, cache, now, pkgRef.Include, Version(pkgRef),
                                   last.targetFramework, own)} :
         /\ cache' = a.cache
         /\ last' = Awaited(a, o.issue)
   /\ UNCHANGED <<config, now, ncalls>>

\* One iteration of the loop of checkProjectCompatibilityEnhanced.
AwaitEnhancedReference(own, other, nuspec) ==
   /\ last.op = "awaiting"
   /\ last.enhanced
   /\ Len(last.verdicts) < Len(last.packageReferences)
   /\ \E pkgRef \in {last.packageReferences[Len(last.verdicts) + 1]} :
      \E a \in {EnhancedStep(config, now, RegistryFor(pkgRef.Include, own, other, nuspec),
                             pkgRef, last.targetFramework,
                             [cache |-> cache, issues |-> last.issues])} :
      \E o \in {checkCompatibility(config, cache, now, pkgRef.Include, Version(pkgRef),
                                   last.targetFramework, own)} :
         /\ cache' = a.cache
         /\ last' = Awaited(a, o.issue)
   /\ UNCHANGED <<config, now, ncalls>>

\* The loop is over and the list is returned.
ReturnIssues ==
   /\ last.op = "awaiting"
   /\ Len(last.verdicts) = Len(last.packageReferences)
   /\ last' = [last EXCEPT !.op = "returned"]
   /\ UNCHANGED <<config, cache, now, ncalls>>

NextProject ==
   \/ \E e \in BOOLEAN, refs \in BatchLists(MaxBatch), f \in TargetFrameworks :
         BeginProject(e, refs, f)
   \/ \E own \in IndexResponses : AwaitReference(own)
   \/ \E own \in IndexResponses, other \in IndexResponses, nuspec \in BOOLEAN :
         AwaitEnhancedReference(own, other, nuspec)
   \/ ReturnIssues
   \/ Tick

SpecProject == InitProject /\ [][NextProject]_vars

\* How many of the first i references got a verdict that is not null.
IssuesUpTo(i) == Cardinality({j \in 1..i : last.verdicts[j] # Null})

\* The fields of a CompatibilityIssue in an issue of either list.
BaseIssue(issue) ==
   [f \in {"packageName", "packageVersion", "targetFramework", "issueType", "message",
           "recommendation"} |-> issue[f]]

\* C12: the list returned by checkProjectCompatibilityEnhanced and by
\* checkProjectCompatibility is the subsequence of the input references
\* whose checkCompatibility verdict is not null, in input order, one issue
\* per such reference, whenever the remote requests complete.
C12_InputOrder ==
   last.op = "returned"
   => /\ Len(last.issues) = IssuesUpTo(Len(last.packageReferences))
      /\ \A i \in 1..Len(last.packageReferences) :
            last.verdicts[i] # Null
            => /\ BaseIssue(last.issues[IssuesUpTo(i)]) = last.verdicts[i]
               /\ last.issues[IssuesUpTo(i)].packageName = last.packageReferences[i].Include

\* Two references with different issues, the second awaited later than the
\* first, were returned in input order by the enhanced check.
C12_Witness ==
   /\ last.op = "returned"
   /\ last.enhanced
   /\ Len(last.issues) = 2
   /\ last.issues[1].packageName # last.issues[2].packageName
   /\ last.times[1] < last.times[2]

(***************************************************************************)
(* The resolver asked about packages the catalog has no rule for           *)
(* (SpecUnlisted).                                                         *)
(***************************************************************************)
NextUnlisted ==
   \/ \E n \in UnlistedNames, v \in PackageVersions, f \in TargetFrameworks, r \in Responses :
         CheckCompatibility(n, v, f, r)
   \/ clearCache
   \/ Tick

SpecUnlisted == Init /\ [][NextUnlisted]_vars

\* No rule of the catalog has this name, and no pattern of the catalog
\* matches it.
NoCatalogRule(packageName) ==
   \A i \in 1..Len(initializeCompatibilityRules) :
      LET rule == initializeCompatibilityRules[i] IN
      /\ Has(rule, "packageName") => rule.packageName # packageName
      /\ Has(rule, "packageNamePattern") => ~startsWith(packageName, rule.packageNamePattern)

\* C13: for a package with no catalog rule checkCompatibility returns null,
\* whatever the version and the target framework, when remote lookups are
\* disabled or the remote lookup made by the call fails.
C13_UnlistedIsCompatible ==
   (IsCheck(last) /\ NoCatalogRule(last.packageName))
   => /\ ~config.nugetApiEnabled => last.issue = Null
      /\ (last.requests = 1 /\ last.response.kind \in FailureKinds) => last.issue = Null

\* A versioned package without a rule was found compatible by the local
\* rules after its remote lookup failed.
C13_Witness ==
   /\ IsCheck(last)
   /\ NoCatalogRule(last.packageName)
   /\ last.packageName = "entityframework"
   /\ last.packageVersion = "6.4.4"
   /\ last.requests = 1
   /\ last.response.kind \in FailureKinds
   /\ last.local
   /\ last.issue = Null

(***************************************************************************)
(* enhanceIssue as a function of the issue it is given (SpecEnhance).      *)
(* Neither the shipped catalog nor fetchPackageInfo ever marks a package   *)
(* deprecated, so an issue of each type is drawn for the reference, under  *)
(* settings with which checkCompatibility does return issues for it.       *)
(***************************************************************************)
IssueTypes == {"incompatible", "version_mismatch", "deprecated"}

BaseIssues(pkgRef, targetFramework) ==
   {Issue(pkgRef.Include, Version(pkgRef), targetFramework, type,
          "Package " \o pkgRef.Include \o " is " \o type, "See the package documentation") :
      type \in IssueTypes}

InitEnhance ==
   /\ config \in Configs
   /\ cache = EmptyCache
   /\ now = 0
   /\ ncalls = 0
   /\ last \in {[op |-> "issue", baseIssue |-> b, pkgRef |-> p, targetFramework |-> f,
                 registry |-> r] :
                  p \in PackageReferences, f \in TargetFrameworks, r \in Registries,
                  b \in UNION {BaseIssues(q, g) : q \in PackageReferences, g \in TargetFrameworks}}
   /\ last.baseIssue \in BaseIssues(last.pkgRef, last.targetFramework)
   /\ config.nugetCheckEnabled
   /\ ~ignored[config.nugetIgnoredPackages, last.pkgRef.Include]

EnhanceIssue ==
   /\ last.op = "issue"
   /\ \E e \in {enhanceIssue(config, cache, now, last.registry, last.baseIssue,
                             last.pkgRef.Include, Version(last.pkgRef), last.targetFramework)} :
         /\ cache' = e.cache
         /\ last' = [op |-> "enhanceIssue", baseIssue |-> last.baseIssue,
                     pkgRef |-> last.pkgRef, targetFramework |-> last.targetFramework,
                     registry |-> last.registry, issue |-> e.issue]
   /\ UNCHANGED <<config, now, ncalls>>

NextEnhance == EnhanceIssue

SpecEnhance == InitEnhance /\ [][NextEnhance]_vars

DeclaredDependencies ==
   {<<>>, <<[id |-> "EntityFramework", range |-> "[6.4.4, )"]>>}

DocumentedRegistries ==
   [index : [ListedNames -> IndexResponses], nuspec : BOOLEAN, declared : DeclaredDependencies]

InitTransitive ==
   /\ config \in Configs
   /\ cache = EmptyCache
   /\ now = 0
   /\ ncalls = 0
   /\ last \in {[op |-> "issue", baseIssue |-> b, pkgRef |-> p, targetFramework |-> f,
                 registry |-> r] :
                  p \in BatchReferences, f \in TargetFrameworks, r \in DocumentedRegistries,
                  b \in UNION {BaseIssues(q, g) : q \in BatchReferences, g \in TargetFrameworks}}
   /\ last.baseIssue \in BaseIssues(last.pkgRef, last.targetFramework)
   /\ last.baseIssue.issueType # "deprecated"
   /\ \A i \in 1..Len(last.registry.declared) :
         last.registry.declared[i].id # last.pkgRef.Include
   /\ config.nugetCheckEnabled
   /\ ~ignored[config.nugetIgnoredPackages, last.pkgRef.Include]

SpecTransitive == InitTransitive /\ [][NextEnhance]_vars

\* What checkCompatibility answers for a declared dependency on the target
\* framework of the operation.
DependencyVerdict(dependency) ==
   checkCompatibility(config, EmptyCache, now, dependency.id,
                      extractVersionFromRange(dependency.range), last.targetFramework,
                      last.registry.index[dependency.id]).issue

\* C15: with remote lookups enabled, a version given and the metadata of
\* that version fetched, every declared dependency whose verdict on the
\* target framework is not null appears in transitiveIssues; with remote
\* lookups disabled or no version there are no transitive issues.
C15_TransitiveChecked ==
   last.op = "enhanceIssue"
   => /\ (config.nugetApiEnabled /\ Truthy(Version(last.pkgRef)) /\ last.registry.nuspec)
         => \A i \in 1..Len(last.registry.declared) :
               DependencyVerdict(last.registry.declared[i]) # Null
               => \E k \in 1..Len(last.issue.transitiveIssues) :
                     last.issue.transitiveIssues[k].packageName = last.registry.declared[i].id
      /\ (~config.nugetApiEnabled \/ ~Truthy(Version(last.pkgRef)))
         => last.issue.transitiveIssues = <<>>

(***************************************************************************)
(* FileWatcher (lines 1925-2029): the watchers of source files and of       *)
(* project files, and the debounced automatic update.  In this              *)
(* specification `config` holds the settings the watcher reads, `now` the   *)
(* clock of the timers, `ncalls` the number of change events delivered and  *)
(* `last` the watcher itself: its debounceTimer handle, the timers that     *)
(* are set, the runs of the timer callback in progress and the log of what  *)
(* happened.                                                                *)
(***************************************************************************)
\* Bounds of the watcher model.
MaxEvents == 3
MaxClock == 2000

\* Line 2014: the delay of the debounce timer, in milliseconds.
DebounceMs == 1000

\* String.prototype.replace with a global pattern of literal text.
RECURSIVE replaceAll(_, _, _)
replaceAll(s, from, to) ==
   IF s = "" THEN ""
   ELSE IF startsWith(s, from)
        THEN to \o replaceAll(SubSeq(s, Len(from) + 1, Len(s)), from, to)
        ELSE Char(s, 1) \o replaceAll(Tail(s), from, to)

\* Line 1994: the source of the regular expression made from a glob; the
\* second replacement also rewrites the stars the first one produced.
GlobToRegExp(pattern) == replaceAll(replaceAll(pattern, "**", ".*"), "*", "[^/]*")

\* The regular expression matches some prefix of s.  Its source is made of
\* literal characters, of `.` and of `[^/]*`.
RECURSIVE MatchesPrefix(_, _)
MatchesPrefix(re, s) ==
   IF re = "" THEN TRUE
   ELSE IF startsWith(re, "[^/]*")
        THEN \/ MatchesPrefix(SubSeq(re, 6, Len(re)), s)
             \/ s # "" /\ Char(s, 1) # "/" /\ MatchesPrefix(re, Tail(s))
   ELSE IF s = "" THEN FALSE
   ELSE IF Char(re, 1) = "." THEN MatchesPrefix(Tail(re), Tail(s))
   ELSE Char(re, 1) = Char(s, 1) /\ MatchesPrefix(Tail(re), Tail(s))

\* RegExp.prototype.test of an unanchored expression.
RegExpTest(re, s) == \E i \in 1..(Len(s) + 1) : MatchesPrefix(re, SubSeq(s, i, Len(s)))

\* Lines 1989-1997.
shouldIgnoreFile(excludePatterns, filePath) ==
   \E i \in 1..Len(excludePatterns) : RegExpTest(GlobToRegExp(excludePatterns[i]), filePath)

\* Line 1945: the default of the excludePatterns setting.
DefaultExcludePatterns == <<"**/bin/**", "**/obj/**", "**/node_modules/**">>

\* Paths of source files whose events the source watchers deliver.
SourcePaths == {"/w/App/Program.cs", "/w/App/bin/Debug/Program.cs"}

WatcherConfigs == [autoUpdate : BOOLEAN, excludePatterns : {DefaultExcludePatterns}]

\* Lines 1925-1934: the watcher after construction.
NewWatcher ==
   [op |-> "FileWatcher", debounceTimer |-> Undefined, timers |-> {}, updating |-> 0,
    generating |-> 0, disposed |-> FALSE, log |-> <<>>]

InitWatcher ==
   /\ config \in WatcherConfigs
   /\ cache = EmptyCache
   /\ now = 0
   /\ ncalls = 0
   /\ last = NewWatcher

\* An entry of the log for a change event.
EventEntry(watcher, accepted) ==
   [kind |-> "event", watcher |-> watcher, at |-> now, autoUpdate |-> config.autoUpdate,
    accepted |-> accepted]

\* The debounce without the clearTimeout of lines 2000-2002.
debounceUpdateKeepingTimer(w, time, handle) ==
   [w EXCEPT !.timers = @ \cup {[handle |-> handle, due |-> time + DebounceMs]},
             !.debounceTimer = handle]

\* Lines 1999-2016: clear the timer debounceTimer refers to, set a new one.
debounceUpdate(w, time, handle) ==
   [w EXCEPT !.timers = {t \in @ : t.handle # w.debounceTimer}
                        \cup {[handle |-> handle, due |-> time + DebounceMs]},
             !.debounceTimer = handle]

\* Lines 1966-1982: an event of a watcher of source files.
OnFileChange(fsPath) ==
   /\ ~last.disposed
   /\ ncalls < MaxEvents
   /\ ncalls' = ncalls + 1
   /\ \E accepted \in {config.autoUpdate /\ ~shouldIgnoreFile(config.excludePatterns, fsPath)} :
         last' = [(IF accepted THEN debounceUpdate(last, now, ncalls + 1) ELSE last)
                     EXCEPT !.op = "onFileChange",
                            !.log = Append(@, EventEntry("source", accepted))]
   /\ UNCHANGED <<config, cache, now>>

\* Lines 1984-1987: an event of the watcher of project and solution files.
OnProjectFileChange ==
   /\ ~last.disposed
   /\ ncalls < MaxEvents
   /\ ncalls' = ncalls + 1
   /\ last' = [debounceUpdate(last, now, ncalls + 1)
                  EXCEPT !.op = "onProjectFileChange",
                         !.log = Append(@, EventEntry("project", TRUE))]
   /\ UNCHANGED <<config, cache, now>>

\* Lines 2004-2008: a timer that is due fires; its callback calls
\* updateAllProjectFiles and waits for it.
TimerFires ==
   \E t \in last.timers :
      /\ t.due <= now
      /\ last' = [last EXCEPT !.op = "timer",
                              !.timers = @ \ {t},
                              !.updating = @ + 1,
                              !.log = Append(@, [kind |-> "updateAllProjectFiles", at |-> now])]
      /\ UNCHANGED <<config, cache, now, ncalls>>

\* Lines 2007-2008 and 80-105: updateAllProjectFiles catches its own errors
\* and returns; the callback calls generateSolutionFile.
UpdateAllProjectFilesReturns ==
   /\ last.updating > 0
   /\ last' = [last EXCEPT !.op = "updateAllProjectFiles",
                           !.updating = @ - 1,
                           !.generating = @ + 1,
                           !.log = Append(@, [kind |-> "generateSolutionFile", at |-> now])]
   /\ UNCHANGED <<config, cache, now, ncalls>>

\* Lines 2008-2013 and 57-78: generateSolutionFile returns, the callback ends.
GenerateSolutionFileReturns ==
   /\ last.generating > 0
   /\ last' = [last EXCEPT !.op = "generateSolutionFile", !.generating = @ - 1]
   /\ UNCHANGED <<config, cache, now, ncalls>>

\* Lines 2018-2028: dispose clears the timer and disposes of the watchers.
Dispose ==
   /\ ~last.disposed
   /\ last' = [last EXCEPT !.op = "dispose",
                           !.timers = {t \in @ : t.handle # last.debounceTimer},
                           !.disposed = TRUE]
   /\ UNCHANGED <<config, cache, now, ncalls>>

\* Lines 1967-1968: the setting is read at every event, so a change of the
\* setting by the user takes effect at the next event.
ChangeAutoUpdate ==
   /\ config' = [config EXCEPT !.autoUpdate = ~@]
   /\ UNCHANGED <<cache, now, ncalls, last>>

\* Time passes.
Elapse ==
   /\ now + TickMs <= MaxClock
   /\ now' = now + TickMs
   /\ UNCHANGED <<config, cache, ncalls, last>>

NextWatcher ==
   \/ \E fsPath \in SourcePaths : OnFileChange(fsPath)
   \/ OnProjectFileChange
   \/ TimerFires
   \/ UpdateAllProjectFilesReturns
   \/ GenerateSolutionFileReturns
   \/ Dispose
   \/ ChangeAutoUpdate
   \/ Elapse

SpecWatcher == InitWatcher /\ [][NextWatcher]_vars

\* C16: an event delivered while the autoUpdate setting is false schedules no
\* automatic update, whichever watcher delivers it.
C16_NoUpdateWhenDisabled ==
   last.op \in {"onFileChange", "onProjectFileChange"}
   => \A k \in 1..Len(last.log) :
         (last.log[k].kind = "event" /\ ~last.log[k].autoUpdate) => ~last.log[k].accepted

\* The accepted event most recently logged before entry k, 0 when none.
LastAccepted(k) ==
   The({IF js = {} THEN 0 ELSE CHOOSE j \in js : \A i \in js : i <= j :
        js \in {{j \in 1..(k - 1) : last.log[j].kind = "event" /\ last.log[j].accepted}}})

Entries(kind) == {k \in 1..Len(last.log) : last.log[k].kind = kind}

\* C17: an accepted event leaves exactly one timer set, due 1 second after
\* it, and no timer is set otherwise; every start of updateAllProjectFiles
\* comes at least 1 second after the accepted event before it, with no other
\* start in between, so a burst of events less than 1 second apart starts
\* one update, after its last event; generateSolutionFile follows each
\* updateAllProjectFiles that has returned.
C17_Debounced ==
   /\ \A k \in Entries("updateAllProjectFiles") :
         /\ LastAccepted(k) # 0
         /\ last.log[k].at >= last.log[LastAccepted(k)].at + 1000
         /\ \A j \in (LastAccepted(k) + 1)..(k - 1) :
               last.log[j].kind # "updateAllProjectFiles"
   /\ \E k \in {Len(last.log) + 1} :
         IF /\ ~last.disposed
            /\ LastAccepted(k) # 0
            /\ \A j \in (LastAccepted(k) + 1)..(k - 1) :
                  last.log[j].kind # "updateAllProjectFiles"
         THEN /\ Cardinality(last.timers) = 1
              /\ \A t \in last.timers : t.due = last.log[LastAccepted(k)].at + 1000
         ELSE last.timers = {}
   /\ Cardinality(Entries("generateSolutionFile")) + last.updating
         = Cardinality(Entries("updateAllProjectFiles"))
   /\ \A k \in Entries("generateSolutionFile") :
         Cardinality({j \in Entries("generateSolutionFile") : j <= k})
            <= Cardinality({j \in Entries("updateAllProjectFiles") : j < k})

\* A burst of two accepted events half a second apart, then one update that
\* has run to its end.
C17_Witness ==
   /\ Len(last.log) >= 4
   /\ last.log[1].kind = "event" /\ last.log[1].accepted
   /\ last.log[2].kind = "event" /\ last.log[2].accepted
   /\ last.log[2].at > last.log[1].at
   /\ last.log[2].at < last.log[1].at + 1000
   /\ last.log[3].kind = "updateAllProjectFiles"
   /\ last.log[4].kind = "generateSolutionFile"
   /\ last.updating = 0 /\ last.generating = 0 /\ last.timers = {}
   /\ Cardinality(Entries("updateAllProjectFiles")) = 1

(***************************************************************************)
(* The verdict of a successful remote lookup for a version the list does   *)
(* not contain, under Spec.                                                 *)
(***************************************************************************)
\* The last call fetched the version list and its version is not in it.
VersionNotListed ==
   /\ IsCheck(last)
   /\ last.requests = 1
   /\ last.response.kind = "ok"
   /\ Truthy(last.packageVersion)
   /\ ~includes(last.response.versions, last.packageVersion)

\* The verdict is a version_mismatch, returned without the local rules and
\* cached when caching is on.
MismatchReturned ==
   /\ last.issue # Null
   /\ last.issue.issueType = "version_mismatch"
   /\ ~last.local
   /\ config.nugetCacheEnabled
      => \E key \in {cacheKey[last.packageName, last.packageVersion, last.targetFramework]} :
            key \in DOMAIN cache /\ cache[key].value = last.issue

\* C18: a successful remote lookup for a given version that is not in the
\* remote list returns (and caches) a version_mismatch, whatever the catalog
\* says, and its recommendation names an entry of the remote list, the last.
C18_MismatchNamesLatest ==
   VersionNotListed
   => /\ MismatchReturned
      /\ \E i \in 1..Len(last.response.versions) :
            /\ i = Len(last.response.versions)
            /\ last.issue.recommendation = "Latest version is " \o last.response.versions[i]

(***************************************************************************)
(* suggestFrameworkUpgrade over references whose support differs from one  *)
(* candidate to the next (SpecLattice).                                     *)
(***************************************************************************)
MaxLatticeRefs == 3

LatticeReferences == PackageReferences \cup {[Include |-> n] : n \in CatchAllNames}

LatticeReferenceLists == UNION {[1..k -> LatticeReferences] : k \in 0..MaxLatticeRefs}

LatticeFrameworks == {"netstandard2.0", "NetStandard2.1", "net6.0", "net8.0", "net48"}

\* The registry answers every index request of one operation alike.
LatticeIndexes == {[n \in KnownNames |-> r] : r \in IndexResponses}

InitLattice ==
   /\ config \in Configs
   /\ cache = EmptyCache
   /\ now = 0
   /\ ncalls = 0
   /\ last \in {[op |-> "advise", packageReferences |-> refs, targetFramework |-> f,
                 index |-> r] :
                  refs \in LatticeReferenceLists, f \in LatticeFrameworks, r \in LatticeIndexes}

SpecLattice == InitLattice /\ [][NextUpgrade]_vars

\* The candidates of the operation's framework, lowest first.
Candidates ==
   IF toLowerCase(last.targetFramework) \in DOMAIN upgradePaths
   THEN upgradePaths[toLowerCase(last.targetFramework)] ELSE <<>>

\* The number of references of the operation whose verdict on the framework
\* is null, version_mismatch or deprecated.
SupportCount(framework) ==
   Cardinality({i \in 1..Len(last.packageReferences) :
      \E issue \in {checkCompatibility(config, EmptyCache, now,
                                       last.packageReferences[i].Include,
                                       Version(last.packageReferences[i]), framework,
                                       last.index[last.packageReferences[i].Include]).issue} :
         issue = Null \/ issue.issueType \in {"version_mismatch", "deprecated"}})

\* The support of each candidate, by position.
Counts == [i \in 1..Len(Candidates) |-> SupportCount(Candidates[i])]

\* C19: the framework is looked up ignoring case and without an entry there
\* is no suggestion; when some candidate is supported by all references the
\* highest such candidate is selected; a suggested framework is a candidate
\* of the current framework and is not the current framework.
C19_HighestFullySupported ==
   last.op = "suggestFrameworkUpgrade"
   => \E counts \in {Counts} :
         /\ toLowerCase(last.targetFramework) \notin DOMAIN upgradePaths
            => last.result = Null /\ last.bestFramework = NullFramework
         /\ \A i \in 1..Len(Candidates) :
               (/\ counts[i] = Total
                /\ \A j \in (i + 1)..Len(Candidates) : counts[j] # Total)
               => last.bestFramework = Candidates[i]
         /\ last.result # Null
            => /\ \E i \in 1..Len(Candidates) : last.result.suggestedFramework = Candidates[i]
               /\ last.result.suggestedFramework # toLowerCase(last.targetFramework)
               /\ last.result.suggestedFramework # last.targetFramework

\* From NetStandard2.1 the highest candidate is suggested although a lower
\* one is fully supported too; from netstandard2.0 the lowest candidate is
\* the only one a System.* package supports, and it is the one suggested.
C19_Witness ==
   /\ last.op = "suggestFrameworkUpgrade"
   /\ last.result # Null
   /\ \/ /\ last.targetFramework = "NetStandard2.1"
         /\ last.result.suggestedFramework = "net8.0"
         /\ SupportCount("net7.0") = Total
      \/ /\ last.targetFramework = "netstandard2.0"
         /\ last.result.suggestedFramework = "netstandard2.1"
         /\ SupportCount("net8.0") = 0

\* The framework has an entry in the lattice and no candidate is supported
\* by all references.
NoneFullySupported(counts) ==
   /\ Len(Candidates) > 0
   /\ \A i \in 1..Len(Candidates) : counts[i] # Total

\* The framework selected is candidate i and no candidate has more support.
SelectsMaximum(counts, i) ==
   /\ last.bestFramework = Candidates[i]
   /\ \A j \in 1..Len(Candidates) : counts[j] <= counts[i]

\* C20 as stated: when no candidate is supported by all references, a
\* candidate with the maximum count of supporting references is selected,
\* the lowest one among those with that count.
C20_LowestAmongTies ==
   last.op = "suggestFrameworkUpgrade"
   => \E counts \in {Counts} :
         NoneFullySupported(counts)
         => \E i \in 1..Len(Candidates) :
               /\ SelectsMaximum(counts, i)
               /\ \A j \in 1..(i - 1) : counts[j] < counts[i]

\* C20 (amended): when no candidate is supported by all references and some
\* candidate is supported by at least one, a candidate with the maximum
\* count is selected, the highest one among those with that count; when no
\* candidate is supported by any reference, none is selected.
C20_HighestAmongTies ==
   last.op = "suggestFrameworkUpgrade"
   => \E counts \in {Counts} :
         NoneFullySupported(counts)
         => IF \A j \in 1..Len(Candidates) : counts[j] = 0
            THEN last.bestFramework = NullFramework /\ last.result = Null
            ELSE \E i \in 1..Len(Candidates) :
                    /\ SelectsMaximum(counts, i)
                    /\ \A j \in (i + 1)..Len(Candidates) : counts[j] < counts[i]

\* Two of three references support every candidate of netstandard2.0 from
\* netcoreapp3.1 up, and the framework selected is net8.0.
C20_Witness ==
   /\ last.op = "suggestFrameworkUpgrade"
   /\ last.targetFramework = "netstandard2.0"
   /\ Total = 3
   /\ SupportCount("netcoreapp3.1") = 2
   /\ SupportCount("net7.0") = 2
   /\ SupportCount("net8.0") = 2
   /\ SupportCount("netstandard2.1") < 3
   /\ last.bestFramework = "net8.0"

(***************************************************************************)
(* The rule catalog as a function of a package name, a version and a       *)
(* target framework (SpecCatalog).                                          *)
(***************************************************************************)
CatalogNames ==
   {"Microsoft.AspNetCore.App", "microsoft.aspnetcore.app", "Microsoft.AspNetCore.Razor",
    "Microsoft.AspNetCore.Components.Web", "Microsoft.AspNetCore.Components.Forms",
    "System.Memory", "System.Text.Json", "Acme.Widgets"}

CatalogVersions == {Undefined, "2.0.9", "2.1.0", "2.1.5", "2.2.0"}

CatalogFrameworks ==
   {"netstandard1.0", "netstandard2.0", "netstandard2.1", "netcoreapp2.1", "netcoreapp3.1",
    "net5.0", "net6.0", "net8.0", "net48", "net"}

InitCatalog ==
   /\ config = DefaultConfig
   /\ cache = EmptyCache
   /\ now = 0
   /\ ncalls = 0
   /\ last \in {[op |-> "lookup", packageName |-> n, packageVersion |-> v,
                 targetFramework |-> f] :
                  n \in CatalogNames, v \in CatalogVersions, f \in CatalogFrameworks}

\* Lines 878-931 on the catalog of the program: the rule found and the
\* verdict of the local rules.
CheckCatalog ==
   /\ last.op = "lookup"
   /\ last' = [op |-> "catalog", packageName |-> last.packageName,
               packageVersion |-> last.packageVersion,
               targetFramework |-> last.targetFramework,
               rule |-> findRuleForPackage(last.packageName),
               issue |-> checkCompatibilityLocal(last.packageName, last.packageVersion,
                                                 last.targetFramework)]
   /\ UNCHANGED <<config, cache, now, ncalls>>

NextCatalog == CheckCatalog

SpecCatalog == InitCatalog /\ [][NextCatalog]_vars

\* The upper bound the rule found gives the version on the target framework
\* ends in the segment x: the bound, or Undefined.
WildcardBound ==
   IF /\ last.rule # Null
      /\ Has(last.rule, "versionRules")
      /\ Has(last.rule.versionRules, "frameworkVersions")
      /\ last.targetFramework \in DOMAIN last.rule.versionRules.frameworkVersions
      /\ Has(last.rule.versionRules.frameworkVersions[last.targetFramework], "max")
   THEN \E max \in {last.rule.versionRules.frameworkVersions[last.targetFramework].max} :
           Char(max, Len(max)) = "x"
   ELSE FALSE

\* C21: a version that has the numeric segments of a bound ending in x, such
\* as 2.1.5 under the bound 2.1.x, does not compare greater than the bound,
\* and the package gets no version_mismatch for it.
C21_WildcardSegment ==
   (/\ last.op = "catalog"
    /\ Truthy(last.packageVersion)
    /\ WildcardBound)
   => \E max \in {last.rule.versionRules.frameworkVersions[last.targetFramework].max} :
         startsWith(last.packageVersion, SubSeq(max, 1, Len(max) - 1))
         => /\ compareVersions(last.packageVersion, max) <= 0
            /\ last.issue = Null

(***************************************************************************)
(* isFrameworkCompatible on rules that declare bounds only (SpecBounds).    *)
(***************************************************************************)
MinFrameworks == {Undefined, "netstandard1.0", "netcoreapp2.0", "net5.0"}
MaxFrameworks == {Undefined, "net48", "netcoreapp3.1", "net6.0"}

BoundRules ==
   {[packageName |-> SampleName]
       @@ (IF min = Undefined THEN NoFields ELSE [minFramework |-> min])
       @@ (IF max = Undefined THEN NoFields ELSE [maxFramework |-> max]) :
      min \in MinFrameworks, max \in MaxFrameworks}

BoundFrameworks ==
   {"net8.0", "net5.0", "net48", "net4.8", "netstandard1.0", "netstandard2.0",
    "netcoreapp3.1", "netcoreapp1.0", "net", "netstandard", "foo", "foo1.0"}

InitBounds ==
   /\ config = DefaultConfig
   /\ cache = EmptyCache
   /\ now = 0
   /\ ncalls = 0
   /\ last \in {[op |-> "bounds", rule |-> r, targetFramework |-> f] :
                  r \in BoundRules, f \in BoundFrameworks}

IsFrameworkCompatible ==
   /\ last.op = "bounds"
   /\ last' = [op |-> "isFrameworkCompatible", rule |-> last.rule,
               targetFramework |-> last.targetFramework,
               result |-> isFrameworkCompatible(last.targetFramework, last.rule)]
   /\ UNCHANGED <<config, cache, now, ncalls>>

NextBounds == IsFrameworkCompatible

SpecBounds == InitBounds /\ [][NextBounds]_vars

\* The moniker has a numeric part.
Parses(framework) == \E i \in 1..Len(framework) : IsDigit(Char(framework, i))

\* a is not after b: an earlier family (by name), or the same family and a
\* version that is not greater.
NotAfter(a, b) ==
   \E x \in {parseFrameworkVersion(a)}, y \in {parseFrameworkVersion(b)} :
      \/ TypeRank(x.type) < TypeRank(y.type)
      \/ x.type = y.type /\ x.version.num * y.version.den <= y.version.num * x.version.den

\* The moniker lies within the bounds the rule declares.
WithinBounds(framework, rule) ==
   /\ Has(rule, "minFramework") => NotAfter(rule.minFramework, framework)
   /\ Has(rule, "maxFramework") => NotAfter(framework, rule.maxFramework)

\* C22 as stated: under a rule with bounds and no supportedFrameworks a
\* moniker is compatible if and only if it has a numeric part and lies
\* within the bounds; under a rule with neither every moniker is compatible.
C22_BoundsAsStated ==
   last.op = "isFrameworkCompatible"
   => IF Has(last.rule, "minFramework") \/ Has(last.rule, "maxFramework")
      THEN last.result <=> (/\ Parses(last.targetFramework)
                            /\ WithinBounds(last.targetFramework, last.rule))
      ELSE last.result

\* C22 (amended): under a rule with bounds and no supportedFrameworks a
\* moniker that has a numeric part is compatible if and only if it lies
\* within the bounds, families ordered by name and versions numerically; a
\* moniker without a numeric part is compatible; under a rule with neither
\* every moniker is compatible.
C22_Bounds ==
   last.op = "isFrameworkCompatible"
   => IF Has(last.rule, "minFramework") \/ Has(last.rule, "maxFramework")
      THEN IF Parses(last.targetFramework)
           THEN last.result <=> WithinBounds(last.targetFramework, last.rule)
           ELSE last.result
      ELSE last.result

\* netstandard2.0 is above the floor netstandard1.0 and, by the name of its
\* family, above the ceiling net6.0: it is not compatible.
C22_Witness ==
   /\ last.op = "isFrameworkCompatible"
   /\ last.targetFramework = "netstandard2.0"
   /\ Has(last.rule, "minFramework") /\ last.rule.minFramework = "netstandard1.0"
   /\ Has(last.rule, "maxFramework") /\ last.rule.maxFramework = "net6.0"
   /\ ~last.result

\* The rule found for the package is the catch-all rule of System.* names.
OnlyCatchAll ==
   /\ last.rule # Null
   /\ Has(last.rule, "packageNamePattern")
   /\ last.rule.packageNamePattern = "System."

\* The target frameworks from the floor netstandard1.0 upward.
FromFloorUpward ==
   {"netstandard1.0", "netstandard2.0", "netstandard2.1", "netcoreapp2.1", "netcoreapp3.1",
    "net5.0", "net6.0", "net8.0"}

\* C23: under local rules a package that only the catch-all System.* rule
\* applies to has no issue on netstandard1.0 and later, on netcoreapp
\* targets and on net5.0 through net8.0.
C23_CatchAllCompatible ==
   (/\ last.op = "catalog"
    /\ OnlyCatchAll
    /\ last.targetFramework \in FromFloorUpward)
   => last.issue = Null

\* Positions of the catalog whose rule names the package exactly.
NamedAt(packageName) ==
   {i \in 1..Len(initializeCompatibilityRules) :
      /\ "packageName" \in DOMAIN initializeCompatibilityRules[i]
      /\ initializeCompatibilityRules[i].packageName = packageName}

\* Positions of the catalog whose rule has a pattern the name begins with.
PatternAt(packageName) ==
   {i \in 1..Len(initializeCompatibilityRules) :
      /\ "packageNamePattern" \in DOMAIN initializeCompatibilityRules[i]
      /\ \E p \in {initializeCompatibilityRules[i].packageNamePattern} :
            Len(packageName) >= Len(p) /\ SubSeq(packageName, 1, Len(p)) = p}

\* C24: findRuleForPackage returns the rule named exactly (case-sensitive)
\* like the package when there is one, otherwise the first rule in
\* declaration order whose pattern matches, otherwise none; for
\* Microsoft.AspNetCore.Components.Forms that is the Microsoft.AspNetCore.*
\* rule, declared before the Microsoft.AspNetCore.Components.* rule.
C24_ExactThenFirstPattern ==
   last.op = "catalog"
   => \E named \in {NamedAt(last.packageName)}, pattern \in {PatternAt(last.packageName)} :
         /\ named # {}
            => \E i \in named : /\ last.rule = initializeCompatibilityRules[i]
                                /\ \A j \in named : i <= j
         /\ (named = {} /\ pattern # {})
            => \E i \in pattern : /\ last.rule = initializeCompatibilityRules[i]
                                  /\ \A j \in pattern : i <= j
         /\ (named = {} /\ pattern = {}) => last.rule = Null
         /\ last.packageName = "Microsoft.AspNetCore.Components.Forms"
            => /\ Cardinality(pattern) = 2
               /\ last.rule.packageNamePattern = "Microsoft.AspNetCore."

\* Two patterns match Microsoft.AspNetCore.Components.Forms and the rule
\* found is the one declared first.
C24_Witness ==
   /\ last.op = "catalog"
   /\ last.packageName = "Microsoft.AspNetCore.Components.Forms"
   /\ Cardinality(PatternAt(last.packageName)) = 2
   /\ NamedAt(last.packageName) = {}
   /\ last.rule # Null
   /\ last.rule.packageNamePattern = "Microsoft.AspNetCore."

(***************************************************************************)
(* The resolver with caching on, called with absent versions and with the  *)
(* version strings of KeyVersions (SpecKeys).                               *)
(***************************************************************************)
KeyResponses == {Failure("timeout"), Success(<<"6.4.4">>)}

InitKeys ==
   /\ config \in {c \in Configs : /\ c.nugetCheckEnabled
                                  /\ c.nugetCacheEnabled
                                  /\ c.nugetIgnoredPackages = <<>>}
   /\ cache = EmptyCache
   /\ now = 0
   /\ ncalls = 0
   /\ last = NoOperation

NextKeys ==
   \/ \E n \in PackageNames, v \in KeyVersions, f \in TargetFrameworks, r \in KeyResponses :
         CheckCompatibility(n, v, f, r)
   \/ clearCache
   \/ Tick

SpecKeys == InitKeys /\ [][NextKeys]_vars

\* C25: the key of a request is name|version-or-latest|framework; the key
\* of a request with a literal version differs from the key of the request
\* for the same package and framework without a version, and an entry such
\* a request is served from was stored by a request with that version.
C25_KeysDiffer ==
   IsCheck(last)
   => /\ KeyOf(last) = last.packageName \o "|"
                        \o (IF Truthy(last.packageVersion) THEN last.packageVersion
                            ELSE "latest")
                        \o "|" \o last.targetFramework
      /\ Truthy(last.packageVersion)
         => /\ KeyOf(last) # CacheKey(last.packageName, Undefined, last.targetFramework)
            /\ last.read = "hit" => last.issue.packageVersion = last.packageVersion

(***************************************************************************)
(* The suggested version of the issues of checkProjectCompatibilityEnhanced *)
(* (SpecEnhanced).                                                          *)
(***************************************************************************)
\* Positions of the fetched list whose version passes the test of the local
\* rules for the package on the target framework of the operation.
Passing(packageName, versions) ==
   {i \in 1..Len(versions) : frameworkVerdict[packageName, last.targetFramework]}

\* C26: the suggested version of an issue is absent when remote lookups are
\* disabled or the version list is unavailable or empty; otherwise it is the
\* last entry of the list that passes the per-version test of the local
\* rules, or the last entry of the list when none passes.
C26_SuggestedVersion ==
   last.op = "checkProjectCompatibilityEnhanced"
   => \A k \in 1..Len(last.issues) :
         \E issue \in {last.issues[k]} :
         \E response \in {last.registry.index[issue.packageName]} :
            IF ~config.nugetApiEnabled \/ response.kind # "ok"
            THEN issue.suggestedVersion = Undefined
            ELSE \E passing \in {Passing(issue.packageName, response.versions)} :
                    /\ response.versions = <<>> => issue.suggestedVersion = Undefined
                    /\ passing # {}
                       => \E i \in passing : /\ issue.suggestedVersion = response.versions[i]
                                             /\ \A j \in passing : j <= i
                    /\ (passing = {} /\ response.versions # <<>>)
                       => issue.suggestedVersion = response.versions[Len(response.versions)]

\* On net48 the fetched list of EntityFramework does not contain 6.4.4: the
\* issue is a version_mismatch, both entries of the list pass and the last
\* one is suggested.
C26_Witness ==
   /\ last.op = "checkProjectCompatibilityEnhanced"
   /\ last.targetFramework = "net48"
   /\ \E k \in 1..Len(last.issues) :
         /\ last.issues[k].packageName = "EntityFramework"
         /\ last.issues[k].issueType = "version_mismatch"
         /\ last.registry.index["EntityFramework"] = Success(<<"6.0.0", "6.5.0">>)
         /\ Passing("EntityFramework", <<"6.0.0", "6.5.0">>) = {1, 2}
         /\ last.issues[k].suggestedVersion = "6.5.0"

(***************************************************************************)
(* The watcher and the files its own update writes (SpecQuiescence).  The  *)
(* update writes a project file for every group of source files (line 314) *)
(* and Solution.sln when there are project files (line 73); the watcher of *)
(* **/*.{csproj,fsproj,vbproj,sln} (line 1956) is notified of these writes *)
(* as of any other.  The timer is kept as the delay that remains, so that  *)
(* the behaviours of the watcher are walks of a finite graph.  `ncalls`    *)
(* counts the external events: there is one, of a source file.             *)
(***************************************************************************)
\* Bounds: runs of the timer callback in progress together, and
\* notifications of written files not yet delivered (further ones coalesce).
MaxRuns == 2
MaxUnseen == 2

\* No timer is set.
NoTimer == -1

Min(a, b) == IF a <= b THEN a ELSE b

\* The watcher after construction; hasSources tells whether the workspace
\* has source files after the external event.
QuietWatcher(hasSources) ==
   [op |-> "FileWatcher", delay |-> NoTimer, updating |-> 0, generating |-> 0,
    unseen |-> 0, hasSources |-> hasSources]

InitQuiescence ==
   /\ config \in WatcherConfigs
   /\ cache = EmptyCache
   /\ now = 0
   /\ ncalls = 0
   /\ last \in {QuietWatcher(hasSources) : hasSources \in BOOLEAN}

\* Lines 1966-1982: the one external event, of a source file.
SourceFileChanged(fsPath) ==
   /\ ncalls = 0
   /\ ncalls' = 1
   /\ last' = [last EXCEPT !.op = "onFileChange",
                           !.delay = IF /\ config.autoUpdate
                                        /\ ~shouldIgnoreFile(config.excludePatterns, fsPath)
                                     THEN DebounceMs ELSE @]
   /\ UNCHANGED <<config, cache, now>>

\* Lines 1984-1987: the notification of a file the update wrote.
WrittenFileNoticed ==
   /\ last.unseen > 0
   /\ last' = [last EXCEPT !.op = "onProjectFileChange",
                           !.unseen = @ - 1,
                           !.delay = DebounceMs]
   /\ UNCHANGED <<config, cache, now, ncalls>>

\* Time passes while a timer is set.
DelayElapses ==
   /\ last.delay > 0
   /\ last' = [last EXCEPT !.op = "elapse", !.delay = IF @ > TickMs THEN @ - TickMs ELSE 0]
   /\ UNCHANGED <<config, cache, now, ncalls>>

\* Lines 2004-2007: the timer fires and its callback calls
\* updateAllProjectFiles.
DelayedUpdateStarts ==
   /\ last.delay = 0
   /\ last.updating + last.generating < MaxRuns
   /\ last' = [last EXCEPT !.op = "timer", !.delay = NoTimer, !.updating = @ + 1]
   /\ UNCHANGED <<config, cache, now, ncalls>>

\* Lines 92-97 and 305-315: updateAllProjectFiles has written the project
\* file of every group of source files and returns.
ProjectFilesWritten ==
   /\ last.updating > 0
   /\ last' = [last EXCEPT !.op = "updateAllProjectFiles",
                           !.updating = @ - 1,
                           !.generating = @ + 1,
                           !.unseen = IF last.hasSources THEN Min(@ + 1, MaxUnseen) ELSE @]
   /\ UNCHANGED <<config, cache, now, ncalls>>

\* Lines 64-74: generateSolutionFile has written Solution.sln, when there
\* are project files, and returns.
SolutionFileWritten ==
   /\ last.generating > 0
   /\ last' = [last EXCEPT !.op = "generateSolutionFile",
                           !.generating = @ - 1,
                           !.unseen = IF last.hasSources THEN Min(@ + 1, MaxUnseen) ELSE @]
   /\ UNCHANGED <<config, cache, now, ncalls>>

NextQuiescence ==
   \/ \E fsPath \in SourcePaths : SourceFileChanged(fsPath)
   \/ WrittenFileNoticed
   \/ DelayElapses
   \/ DelayedUpdateStarts
   \/ ProjectFilesWritten
   \/ SolutionFileWritten

\* Notifications are delivered, time passes, timers fire and the calls of
\* the callback return.
SpecQuiescence ==
   /\ InitQuiescence
   /\ [][NextQuiescence]_vars
   /\ WF_vars(WrittenFileNoticed)
   /\ WF_vars(DelayElapses)
   /\ WF_vars(DelayedUpdateStarts)
   /\ WF_vars(ProjectFilesWritten)
   /\ WF_vars(SolutionFileWritten)

Quiescent ==
   /\ last.delay = NoTimer
   /\ last.updating = 0
   /\ last.generating = 0
   /\ last.unseen = 0

\* C27: after the one source-file event the watcher eventually stays
\* quiescent: no timer set, no run in progress, no notification to come.
C27_Quiescence == <>[]Quiescent

\* C28: at most one run of the timer callback (updateAllProjectFiles, then
\* generateSolutionFile) is in progress at any time, and after dispose no
\* timer is left that could fire.
C28_OneRunAtATime ==
   /\ last.updating + last.generating <= 1
   /\ last.disposed => last.timers = {}

\* The verdicts only the local rule catalog gives.
CatalogVerdict(issue) == issue # Null /\ issue.issueType \in {"deprecated", "incompatible"}

\* The verdict of the local rules for the arguments the issue names.
FromCatalog(issue) ==
   issue = localVerdict[issue.packageName, issue.packageVersion, issue.targetFramework]

\* C29: a successful remote lookup gives version_mismatch or no issue; every
\* deprecated or incompatible issue checkCompatibility returns is the verdict
\* of the local rules, computed by the call or read from the cache, and every
\* such issue in the cache is the verdict of the local rules.
C29_CatalogVerdictsAreLocal ==
   /\ (IsCheck(last) /\ last.requests > 0 /\ last.response.kind = "ok")
         => ~CatalogVerdict(checkCompatibilityViaAPI(last.packageName, last.packageVersion,
                                                     last.targetFramework, last.response))
   /\ (IsCheck(last) /\ CatalogVerdict(last.issue))
         => /\ last.local \/ last.read = "hit"
            /\ FromCatalog(last.issue)
   /\ \A k \in DOMAIN cache : CatalogVerdict(cache[k].value) => FromCatalog(cache[k].value)

\* A call whose remote lookup succeeded returns an incompatible issue (of
\* the local rules, which it consulted after the lookup found no issue).
C29_Witness ==
   /\ IsCheck(last)
   /\ last.requests > 0
   /\ last.response.kind = "ok"
   /\ CatalogVerdict(last.issue)
   /\ last.local

(***************************************************************************)
(* Concurrent calls of checkCompatibility (SpecInterleaved).  A call runs  *)
(* without interruption up to `await this.checkCompatibilityViaAPI(...)`   *)
(* (line 785) and again from the arrival of the response to its return;    *)
(* other calls and clearCache run in between.  `last.pending` holds the    *)
(* calls suspended at the request, `last.key` the key the step used.       *)
(***************************************************************************)
\* Bound: calls suspended at the remote request together.
MaxPending == 2

NoCall == [packageName |-> Undefined]

Slots == 1..MaxPending

FreeSlots(pending) == {i \in Slots : pending[i] = NoCall}

InitInterleaved ==
   /\ config \in {c \in Configs : /\ c.nugetCheckEnabled
                                  /\ c.nugetIgnoredPackages \in {<<>>, <<"entity*">>}}
   /\ cache = EmptyCache
   /\ now = 0
   /\ ncalls = 0
   /\ last = [op |-> "none", key |-> Undefined, pending |-> [i \in Slots |-> NoCall]]

\* Lines 763-780: the call returns before the cache is read, or with the
\* entry it read.
ReturnsEarly(packageName, key) ==
   \/ ~config.nugetCheckEnabled
   \/ ignored[config.nugetIgnoredPackages, packageName]
   \/ config.nugetCacheEnabled /\ getCachedResult(config, cache, now, key).value # UndefinedIssue

\* Lines 758-785: a call up to the remote request.
RequestCheck(packageName, packageVersion, targetFramework) ==
   /\ ncalls < MaxCalls
   /\ config.nugetApiEnabled
   /\ FreeSlots(last.pending) # {}
   /\ \E key \in {cacheKey[packageName, packageVersion, targetFramework]} :
         /\ cache' = IF ReturnsEarly(packageName, key) \/ ~config.nugetCacheEnabled THEN cache
                     ELSE getCachedResult(config, cache, now, key).cache
         /\ last' = [op |-> "checkCompatibility",
                     key |-> IF ~config.nugetCheckEnabled
                                \/ ignored[config.nugetIgnoredPackages, packageName]
                             THEN Undefined ELSE key,
                     pending |-> IF ReturnsEarly(packageName, key) THEN last.pending
                                 ELSE [last.pending EXCEPT
                                         ![CHOOSE i \in FreeSlots(last.pending) :
                                              \A j \in FreeSlots(last.pending) : i <= j] =
                                            [packageName |-> packageName,
                                             packageVersion |-> packageVersion,
                                             targetFramework |-> targetFramework,
                                             key |-> key,
                                             read |-> IF ~config.nugetCacheEnabled THEN "off"
                                                      ELSE IF key \in DOMAIN cache THEN "expired"
                                                      ELSE "miss"]]]
   /\ ncalls' = ncalls + 1
   /\ UNCHANGED <<config, now>>

\* Lines 758-811 with nugetApiEnabled false: the call has no await that
\* suspends it and runs to its return.
CheckWithoutRequest(packageName, packageVersion, targetFramework) ==
   /\ ncalls < MaxCalls
   /\ ~config.nugetApiEnabled
   /\ \E o \in {checkCompatibility(config, cache, now, packageName, packageVersion,
                                    targetFramework, NoResponse)} :
         /\ cache' = o.cache
         /\ last' = [op |-> "checkCompatibility",
                     key |-> IF o.read = "skipped" THEN Undefined
                             ELSE cacheKey[packageName, packageVersion, targetFramework],
                     pending |-> last.pending]
   /\ ncalls' = ncalls + 1
   /\ UNCHANGED <<config, now>>

\* Lines 785-811: the response of the request arrives and the call runs to
\* its return.
ResponseArrives(i, response) ==
   /\ last.pending[i] # NoCall
   /\ \E call \in {last.pending[i]} :
         \E o \in {ResolveStep(config, cache, now, call.key, call.packageName,
                               call.packageVersion, call.targetFramework, response,
                               call.read)} :
            /\ cache' = o.cache
            /\ last' = [op |-> "response", key |-> call.key,
                        pending |-> [last.pending EXCEPT ![i] = NoCall]]
   /\ UNCHANGED <<config, now, ncalls>>

\* Lines 1821-1823: clearCache, while calls are suspended or not.
ClearCacheBetween ==
   /\ ncalls < MaxCalls
   /\ cache' = EmptyCache
   /\ last' = [op |-> "clearCache", key |-> Undefined, pending |-> last.pending]
   /\ ncalls' = ncalls + 1
   /\ UNCHANGED <<config, now>>

NextInterleaved ==
   \/ \E n \in PackageNames, v \in KeyVersions : RequestCheck(n, v, "net8.0")
   \/ \E n \in PackageNames, v \in KeyVersions : CheckWithoutRequest(n, v, "net8.0")
   \/ \E i \in Slots, r \in KeyResponses : ResponseArrives(i, r)
   \/ ClearCacheBetween
   \/ Tick

SpecInterleaved == InitInterleaved /\ [][NextInterleaved]_vars

\* The entry under key k holds an issue, and k is the issue's package name,
\* its version or `latest`, and its target framework.
EntryMatchesKey(k, entry) ==
   /\ entry.value # Null
   /\ entry.value # UndefinedIssue
   /\ split(k, "|") = <<entry.value.packageName,
                        IF Truthy(entry.value.packageVersion)
                        THEN entry.value.packageVersion ELSE "latest",
                        entry.value.targetFramework>>

\* The keys whose entry the step set.
Written == {k \in DOMAIN cache' : k \notin DOMAIN cache \/ cache'[k] # cache[k]}

\* The keys whose entry the step dropped.
Dropped == DOMAIN cache \ DOMAIN cache'

CacheStep ==
   /\ Written # {} =>
         /\ last'.op \in {"checkCompatibility", "response"}
         /\ config.nugetCacheEnabled
         /\ Written = {last'.key}
   /\ Dropped # {} =>
         \/ last'.op = "clearCache"
         \/ /\ last'.op = "checkCompatibility"
            /\ Dropped \subseteq {last'.key}
            /\ Expired(config, cache[last'.key], now)

====
